---- MODULE Spec2Model ----
(***************************************************************************)
(* A model of maven-mcp's version-semantics core: the version tokenizer    *)
(* and comparator (src/src/models/version.rs), the stability classifier,   *)
(* the metadata processor and the cached client (src/src/maven/client.rs). *)
(*                                                                         *)
(* Strings are sequences of one-character strings, so that the scanning,   *)
(* case folding and substring tests of the code are computed, character    *)
(* by character, as the code computes them.  The alphabet is ASCII         *)
(* letters, ASCII digits and the separators '.', '-', '_'.                 *)
(***************************************************************************)
EXTENDS Integers, Sequences, FiniteSets, TLC

VARIABLES
    \* -- comparator harness (MavenVersion::parse / compare) --
    cmpA, cmpB, cmpC,       \* raw version strings handed to MavenVersion::parse
    cmpDone,                \* whether the comparisons below have been computed
    cmpAB, cmpBA, cmpAA,    \* compare(a,b), compare(b,a), compare(a,a)
    cmpBC, cmpAC,           \* compare(b,c), compare(a,c)
    \* -- classifier harness (VersionStability::classify) --
    clsIn, clsOut,          \* the raw string and the tier classify returned
    \* -- metadata processor harness (MavenClient::process_metadata) --
    metadata,               \* the MavenMetadata handed to process_metadata
    processed,              \* the CachedMetadata built from it, or NoSnapshot
    \* -- the client: MavenClient and its callers --
    now,                    \* the clock, in hours
    cache,                  \* moka Cache<String, Arc<CachedMetadata>>
    others,                 \* entries the cache holds for keys outside Keys
    heap,                   \* the Arc<CachedMetadata> objects allocated so far
    calls,                  \* each caller's position in get_metadata
    fetches,                \* network fetches issued so far, per cache key
    \* -- coordinate harness (MavenCoordinate::parse) --
    coordIn, coordOut,      \* the raw string and the Result parse returned
    \* -- update-type harness (UpdateType::between) --
    updCurrent, updTarget,  \* the two raw version strings
    updOut,                 \* the UpdateType between returned
    \* -- health harness (the scoring of analyze_single_health) --
    healthCurrent,          \* the current version of the dependency
    healthMetadata,         \* the CachedMetadata get_metadata returned
    healthOut,              \* the age classification, score and update type
    ageOut,                 \* the DependencyAgeResponse of analyze_dependency_age
    \* -- tokenizer harness (MavenVersion::parse_parts) --
    tokIn, tokOut,          \* the raw string and the tokens parse_parts returned
    \* -- comparison harness (the tool compare_versions) --
    cvCurrent,              \* the version of the coordinate
    cvMetadata,             \* the CachedMetadata get_metadata returned
    cvStableOnly,           \* params.stable_only
    cvOut,                  \* the Result of the tool
    \* -- aggregation harness (the summary of analyze_project_health) --
    aggResults,             \* the per-item results join_all returned
    aggOut,                 \* the summary, score and grade computed from them
    \* -- a batch call (check_multiple_dependencies / analyze_project_health) --
    batchKind,              \* which of the two tools was called
    batchDeps,              \* params.dependencies
    batchStableOnly,        \* params.stable_only
    batchSlots,             \* join_all's output slots, one per future
    batchResponse           \* the CallToolResult, once the call returned

cmpVars    == <<cmpA, cmpB, cmpC, cmpDone, cmpAB, cmpBA, cmpAA, cmpBC, cmpAC>>
clsVars    == <<clsIn, clsOut>>
procVars   == <<metadata, processed>>
clientVars == <<now, cache, others, heap, calls, fetches>>
coordVars  == <<coordIn, coordOut>>
updVars    == <<updCurrent, updTarget, updOut>>
healthVars == <<healthCurrent, healthMetadata, healthOut, ageOut>>
tokVars    == <<tokIn, tokOut>>
cvVars     == <<cvCurrent, cvMetadata, cvStableOnly, cvOut>>
aggVars    == <<aggResults, aggOut>>
batchVars  == <<batchKind, batchDeps, batchStableOnly, batchSlots, batchResponse>>
serviceVars == <<coordVars, updVars, healthVars, aggVars, tokVars, cvVars>>
harnessVars == <<cmpVars, clsVars, procVars, serviceVars, batchVars>>
vars       == <<cmpVars, clsVars, procVars, clientVars, serviceVars, batchVars>>

----------------------------------------------------------------------------
(* Characters and strings                                                   *)

Lowers == <<"a","b","c","d","e","f","g","h","i","j","k","l","m",
            "n","o","p","q","r","s","t","u","v","w","x","y","z">>
Uppers == <<"A","B","C","D","E","F","G","H","I","J","K","L","M",
            "N","O","P","Q","R","S","T","U","V","W","X","Y","Z">>
Digits == <<"0","1","2","3","4","5","6","7","8","9">>

RangeOf(s) == { s[i] : i \in DOMAIN s }

IndexIn(s, c) == CHOOSE i \in DOMAIN s : s[i] = c

IsAsciiDigit(c) == c \in RangeOf(Digits)

IsAlphanumeric(c) == c \in RangeOf(Digits) \cup RangeOf(Lowers) \cup RangeOf(Uppers)

\* '.', '-' and '_' end a run in parse_parts and are dropped
IsSeparator(c) == c = "." \/ c = "-" \/ c = "_"

CharToLower(c) == IF c \in RangeOf(Uppers) THEN Lowers[IndexIn(Uppers, c)] ELSE c

CharToUpper(c) == IF c \in RangeOf(Lowers) THEN Uppers[IndexIn(Lowers, c)] ELSE c

ToLowercase(s) == [i \in DOMAIN s |-> CharToLower(s[i])]

ToUppercase(s) == [i \in DOMAIN s |-> CharToUpper(s[i])]

\* str::contains(pat)
Contains(s, pat) ==
    \E i \in 0..(Len(s) - Len(pat)) :
        \A j \in 1..Len(pat) : s[i + j] = pat[j]

\* str::ends_with(pat)
EndsWith(s, pat) ==
    /\ Len(pat) <= Len(s)
    /\ \A j \in 1..Len(pat) : s[Len(s) - Len(pat) + j] = pat[j]

----------------------------------------------------------------------------
(* u64 values.  A u64 is kept as its canonical decimal digit string (no     *)
(* leading zero, "0" for zero), which is in one-to-one correspondence with  *)
(* the values 0 .. 2^64-1 and keeps the width of the type: a digit run      *)
(* above U64Max fails str::parse::<u64>() and unwrap_or(0) makes it 0.      *)

U64Max == <<"1","8","4","4","6","7","4","4","0","7","3","7","0","9","5","5","1","6","1","5">>

RECURSIVE StripLeadingZeros(_)
StripLeadingZeros(ds) ==
    IF Len(ds) > 1 /\ Head(ds) = "0" THEN StripLeadingZeros(Tail(ds)) ELSE ds

DigitVal(c) == IndexIn(Digits, c) - 1

\* u64::cmp on canonical digit strings: shorter is smaller, else the first
\* differing digit decides
U64Cmp(x, y) ==
    IF Len(x) # Len(y) THEN (IF Len(x) < Len(y) THEN "Less" ELSE "Greater")
    ELSE IF x = y THEN "Equal"
    ELSE LET i == CHOOSE k \in DOMAIN x :
                      /\ x[k] # y[k]
                      /\ \A j \in 1..(k - 1) : x[j] = y[j]
         IN  IF DigitVal(x[i]) < DigitVal(y[i]) THEN "Less" ELSE "Greater"

\* current.parse().unwrap_or(0) on a non-empty run of ASCII digits
ParseU64OrZero(run) ==
    LET canon == StripLeadingZeros(run)
    IN  IF U64Cmp(canon, U64Max) = "Greater" THEN <<"0">> ELSE canon

----------------------------------------------------------------------------
(* MavenVersion::parse_parts                                                *)

NumberPart(run) == [kind |-> "Number", value |-> ParseU64OrZero(run)]
StringPart(run) == [kind |-> "String", value |-> ToLowercase(run)]

\* the flush of `current` as the part its run is
FlushPart(current, in_number) ==
    IF in_number THEN NumberPart(current) ELSE StringPart(current)

\* the scanner's locals before the first character
ScanStart == [parts |-> <<>>, current |-> <<>>, in_number |-> FALSE]

\* variant of ScanChar in which a letter that follows a digit run joins it
ScanChar_letter_joins_number(st, c) ==
    IF IsAsciiDigit(c) THEN
        IF ~st.in_number /\ st.current # <<>>
        THEN [parts     |-> Append(st.parts, StringPart(st.current)),
              current   |-> <<c>>,
              in_number |-> TRUE]
        ELSE [parts     |-> st.parts,
              current   |-> Append(st.current, c),
              in_number |-> TRUE]
    ELSE IF IsSeparator(c) THEN
        IF st.current # <<>>
        THEN [parts     |-> Append(st.parts, FlushPart(st.current, st.in_number)),
              current   |-> <<>>,
              in_number |-> FALSE]
        ELSE [parts     |-> st.parts,
              current   |-> <<>>,
              in_number |-> FALSE]
    ELSE [parts     |-> st.parts,
          current   |-> Append(st.current, c),
          in_number |-> FALSE]

\* one iteration of `for c in version.chars()`
ScanChar(st, c) ==
    IF IsAsciiDigit(c) THEN
        IF ~st.in_number /\ st.current # <<>>
        THEN [parts     |-> Append(st.parts, StringPart(st.current)),
              current   |-> <<c>>,
              in_number |-> TRUE]
        ELSE [parts     |-> st.parts,
              current   |-> Append(st.current, c),
              in_number |-> TRUE]
    ELSE IF IsSeparator(c) THEN
        IF st.current # <<>>
        THEN [parts     |-> Append(st.parts, FlushPart(st.current, st.in_number)),
              current   |-> <<>>,
              in_number |-> FALSE]
        ELSE [parts     |-> st.parts,
              current   |-> <<>>,
              in_number |-> FALSE]
    ELSE
        IF st.in_number /\ st.current # <<>>
        THEN [parts     |-> Append(st.parts, NumberPart(st.current)),
              current   |-> <<c>>,
              in_number |-> FALSE]
        ELSE [parts     |-> st.parts,
              current   |-> Append(st.current, c),
              in_number |-> FALSE]

RECURSIVE ScanFrom(_, _, _)
ScanFrom(st, version, i) ==
    IF i > Len(version) THEN st
    ELSE ScanFrom(ScanChar(st, version[i]), version, i + 1)

parse_parts(version) ==
    LET st == ScanFrom(ScanStart, version, 1)
    IN  IF st.current # <<>>
        THEN Append(st.parts, FlushPart(st.current, st.in_number))
        ELSE st.parts

----------------------------------------------------------------------------
(* Qualifier words, as the character sequences the code matches            *)

W_alpha     == <<"a","l","p","h","a">>
W_beta      == <<"b","e","t","a">>
W_rc        == <<"r","c">>
W_cr        == <<"c","r">>
W_snapshot  == <<"s","n","a","p","s","h","o","t">>
W_m         == <<"m">>
W_milestone == <<"m","i","l","e","s","t","o","n","e">>
W_a         == <<"a">>
W_b         == <<"b">>
W_ga        == <<"g","a">>
W_final     == <<"f","i","n","a","l">>
W_release   == <<"r","e","l","e","a","s","e">>

\* variant of is_qualifier that also lists ga, final and release
is_qualifier_with_release_words(s) ==
    ToLowercase(s) \in {W_alpha, W_beta, W_rc, W_cr, W_snapshot, W_m,
                        W_milestone, W_a, W_b, W_ga, W_final, W_release}

is_qualifier(s) ==
    ToLowercase(s) \in {W_alpha, W_beta, W_rc, W_cr, W_snapshot, W_m,
                        W_milestone, W_a, W_b}

\* the closure `priority` of compare_qualifiers
QualifierPriority(s) ==
    LET w == ToLowercase(s)
    IN  IF w = W_snapshot THEN 0
        ELSE IF w \in {W_alpha, W_a} THEN 1
        ELSE IF w \in {W_beta, W_b} THEN 2
        ELSE IF w \in {W_milestone, W_m} THEN 3
        ELSE IF w \in {W_rc, W_cr} THEN 4
        ELSE IF w \in {W_ga, W_final, W_release} THEN 5
        ELSE 3

IntCmp(x, y) == IF x < y THEN "Less" ELSE IF x > y THEN "Greater" ELSE "Equal"

\* variant of compare_qualifiers with the operands of cmp exchanged
compare_qualifiers_swapped(a, b) == IntCmp(QualifierPriority(b), QualifierPriority(a))

compare_qualifiers(a, b) == IntCmp(QualifierPriority(a), QualifierPriority(b))

----------------------------------------------------------------------------
(* MavenVersion::compare, on the parts of the two versions                  *)

\* variant of the (None, Some(_)) arm without the qualifier test
ShorterVsLonger_no_qualifier_test(other_part) == "Less"

\* the (None, Some(_)) arm: self is exhausted, other has a part
ShorterVsLonger(other_part) ==
    IF other_part.kind = "String" /\ is_qualifier(other_part.value)
    THEN "Greater" ELSE "Less"

\* variant of the (Some(_), None) arm: more parts always means newer
LongerVsShorter_always_newer(self_part) == "Greater"

\* the (Some(_), None) arm: self has a part, other is exhausted
LongerVsShorter(self_part) ==
    IF self_part.kind = "String" /\ is_qualifier(self_part.value)
    THEN "Less" ELSE "Greater"

\* the body of `for i in 0..max_len` from index i on (1-based here)
RECURSIVE CompareFrom(_, _, _)
CompareFrom(sp, op, i) ==
    IF i > Len(sp) /\ i > Len(op) THEN "Equal"
    ELSE IF i > Len(op) THEN LongerVsShorter(sp[i])
    ELSE IF i > Len(sp) THEN ShorterVsLonger(op[i])
    ELSE IF sp[i].kind = "Number" /\ op[i].kind = "Number" THEN
        LET ord == U64Cmp(sp[i].value, op[i].value)
        IN  IF ord = "Equal" THEN CompareFrom(sp, op, i + 1) ELSE ord
    ELSE IF sp[i].kind = "String" /\ op[i].kind = "String" THEN
        LET ord == compare_qualifiers(sp[i].value, op[i].value)
        IN  IF ord # "Equal" THEN ord ELSE CompareFrom(sp, op, i + 1)
    ELSE IF sp[i].kind = "Number" THEN
        (IF is_qualifier(op[i].value) THEN "Greater" ELSE "Less")
    ELSE
        (IF is_qualifier(sp[i].value) THEN "Less" ELSE "Greater")

CompareParts(sp, op) == CompareFrom(sp, op, 1)

----------------------------------------------------------------------------
(* VersionStability::classify                                               *)

P_SNAPSHOT == <<"S","N","A","P","S","H","O","T">>
P_ALPHA    == <<"A","L","P","H","A">>
P_BETA     == <<"B","E","T","A">>

\* str::split(|c| !c.is_alphanumeric()): the pieces between non-alphanumeric
\* characters, empty pieces included
RECURSIVE SplitFrom(_, _, _, _)
SplitFrom(s, i, piece, acc) ==
    IF i > Len(s) THEN Append(acc, piece)
    ELSE IF IsAlphanumeric(s[i]) THEN SplitFrom(s, i + 1, Append(piece, s[i]), acc)
    ELSE SplitFrom(s, i + 1, <<>>, Append(acc, piece))

SplitNonAlphanumeric(s) == SplitFrom(s, 1, <<>>, <<>>)

\* part.starts_with('M') && part.len() > 1 && part[1..] is all ASCII digits
IsMilestonePart(part) ==
    /\ Len(part) >= 1
    /\ part[1] = "M"
    /\ Len(part) > 1
    /\ \A k \in 2..Len(part) : IsAsciiDigit(part[k])

has_milestone(v) ==
    LET pieces == SplitNonAlphanumeric(v)
    IN  \E k \in DOMAIN pieces : IsMilestonePart(pieces[k])

\* variant of classify with the BETA test before the ALPHA test
classify_beta_first(version) ==
    LET v == ToUppercase(version)
    IN  IF Contains(v, P_SNAPSHOT) THEN "Snapshot"
        ELSE IF Contains(v, P_BETA) \/ Contains(v, <<"-","B",".">>) \/ EndsWith(v, <<"-","B">>)
            THEN "Beta"
        ELSE IF Contains(v, P_ALPHA) \/ Contains(v, <<"-","A",".">>) \/ EndsWith(v, <<"-","A">>)
            THEN "Alpha"
        ELSE IF \/ Contains(v, <<"-","R","C">>) \/ Contains(v, <<".","R","C">>)
                \/ Contains(v, <<"-","C","R">>) \/ Contains(v, <<".","C","R">>)
            THEN "RC"
        ELSE IF /\ (Contains(v, <<"-","M">>) \/ Contains(v, <<".","M">>))
                /\ has_milestone(v)
            THEN "Milestone"
        ELSE "Stable"

classify(version) ==
    LET v == ToUppercase(version)
    IN  IF Contains(v, P_SNAPSHOT) THEN "Snapshot"
        ELSE IF Contains(v, P_ALPHA) \/ Contains(v, <<"-","A",".">>) \/ EndsWith(v, <<"-","A">>)
            THEN "Alpha"
        ELSE IF Contains(v, P_BETA) \/ Contains(v, <<"-","B",".">>) \/ EndsWith(v, <<"-","B">>)
            THEN "Beta"
        ELSE IF \/ Contains(v, <<"-","R","C">>) \/ Contains(v, <<".","R","C">>)
                \/ Contains(v, <<"-","C","R">>) \/ Contains(v, <<".","C","R">>)
            THEN "RC"
        ELSE IF /\ (Contains(v, <<"-","M">>) \/ Contains(v, <<".","M">>))
                /\ has_milestone(v)
            THEN "Milestone"
        ELSE "Stable"

----------------------------------------------------------------------------
(* MavenVersion::parse and the Ord instance                                 *)

MavenVersionParse(version) ==
    [original  |-> version,
     stability |-> classify(version),
     parts     |-> parse_parts(version)]

\* MavenVersion::compare / Ord::cmp
compare(self, other) == CompareParts(self.parts, other.parts)

\* compare on raw strings, as every caller uses it
CompareStr(x, y) == compare(MavenVersionParse(x), MavenVersionParse(y))

----------------------------------------------------------------------------
(* Inputs of the comparator: version strings joined from segments, '.'     *)
(* before a numeric segment and '-' before a textual one, and the versions *)
(* the tests of version.rs name.                                            *)

MaxParts == 2          \* segments per generated version (pairs)
MaxTripleParts == 1    \* segments per generated version (triples)

W_RC  == <<"R","C">>
W_foo == <<"f","o","o">>

\* two numbers, a known qualifier in upper case, a release word and an
\* unrecognized text
CmpSegments == { <<"0">>, <<"1">>, W_RC, W_ga, W_foo }

SeparatorBefore(seg) == IF IsAsciiDigit(seg[1]) THEN <<".">> ELSE <<"-">>

RECURSIVE JoinSegments(_)
JoinSegments(segs) ==
    IF Len(segs) = 0 THEN <<>>
    ELSE IF Len(segs) = 1 THEN segs[1]
    ELSE LET front == SubSeq(segs, 1, Len(segs) - 1)
             last  == segs[Len(segs)]
         IN  JoinSegments(front) \o SeparatorBefore(last) \o last

SeqsUpTo(S, n) == UNION { [1..k -> S] : k \in 0..n }

GeneratedVersions(n) == { JoinSegments(q) : q \in SeqsUpTo(CmpSegments, n) }

V_1_0_0       == <<"1",".","0",".","0">>
V_1_0_0_alpha == V_1_0_0 \o <<"-">> \o W_alpha
V_1_0_0_beta  == V_1_0_0 \o <<"-">> \o W_beta
V_1_0_0_rc1   == V_1_0_0 \o <<"-">> \o W_rc \o <<"1">>
V_1_0_1       == <<"1",".","0",".","1">>
V_1_1_0       == <<"1",".","1",".","0">>
V_2_0_0       == <<"2",".","0",".","0">>
V_1_0         == <<"1",".","0">>
V_1_0_alpha   == V_1_0 \o <<"-">> \o W_alpha
\* one above u64::MAX, and u64::MAX itself
V_overflow    == <<"1","8","4","4","6","7","4","4","0","7","3","7","0","9","5","5","1","6","1","6">>

\* the ascending list of the comparator's test
AscendingVersions ==
    << V_1_0_0_alpha, V_1_0_0_beta, V_1_0_0_rc1, V_1_0_0, V_1_0_1, V_1_1_0, V_2_0_0 >>

NamedVersions == RangeOf(AscendingVersions) \cup {V_1_0, V_1_0_alpha, V_overflow, U64Max}

CmpInputs == GeneratedVersions(MaxParts) \cup NamedVersions

V_1_0_rc == V_1_0 \o <<"-">> \o W_rc

TripleInputs == GeneratedVersions(MaxTripleParts) \cup {W_m, V_1_0, V_1_0_1, V_1_0_rc}

----------------------------------------------------------------------------
(* Option<T>: None is the empty tuple, Some(x) the one-element tuple        *)

None == <<>>
Some(x) == <<x>>

----------------------------------------------------------------------------
(* MavenMetadata (maven/metadata.rs).  The declared latest and release are  *)
(* not read by process_metadata and are left out.                           *)

get_versions(md) ==
    IF md.versioning = None THEN <<>>
    ELSE IF md.versioning[1].versions = None THEN <<>>
    ELSE md.versioning[1].versions[1]

get_last_updated(md) ==
    IF md.versioning = None THEN None
    ELSE md.versioning[1].last_updated

----------------------------------------------------------------------------
(* MavenClient::process_metadata                                            *)

\* the (String, MavenVersion) pairs of sorted_versions, in input order
VersionPairs(all_versions) ==
    [i \in DOMAIN all_versions |->
        [str |-> all_versions[i], parsed |-> MavenVersionParse(all_versions[i])]]

\* the closure handed to sort_by: |a, b| b.1.cmp(&a.1)
SortClosure(a, b) == compare(b.parsed, a.parsed)

\* One insertion of a stable insertion sort: x goes behind the last element
\* it is not less than.
RECURSIVE InsertFromRight(_, _, _)
InsertFromRight(sorted, x, j) ==
    IF j = 0 THEN <<x>> \o sorted
    ELSE IF SortClosure(x, sorted[j]) = "Less"
        THEN InsertFromRight(sorted, x, j - 1)
        ELSE SubSeq(sorted, 1, j) \o <<x>> \o SubSeq(sorted, j + 1, Len(sorted))

RECURSIVE StableSortFrom(_, _, _)
StableSortFrom(list, i, sorted) ==
    IF i > Len(list) THEN sorted
    ELSE StableSortFrom(list, i + 1, InsertFromRight(sorted, list[i], Len(sorted)))

StableSort(list) == StableSortFrom(list, 1, <<>>)

\* whether the closure is a total order on the elements of the list, which
\* is what slice::sort_by asks of it
ClosureIsTotalOrderOn(list) ==
    \A i, j, k \in DOMAIN list :
        (SortClosure(list[i], list[j]) # "Greater" /\ SortClosure(list[j], list[k]) # "Greater")
            => SortClosure(list[i], list[k]) # "Greater"

Reorderings(list) ==
    { [i \in DOMAIN list |-> list[p[i]]] : p \in Permutations(DOMAIN list) }

\* slice::sort_by.  It is a stable sort, so under a total order its result
\* is the one a stable insertion sort gives.  When the closure is no total
\* order the standard library leaves the resulting order unspecified: every
\* reordering of the elements is an outcome.
sort_by(list) ==
    IF ClosureIsTotalOrderOn(list) THEN { StableSort(list) } ELSE Reorderings(list)

\* the locals of process_metadata before the loop
CategoriesStart ==
    [stable_versions  |-> <<>>,
     latest_stable    |-> None,
     latest_any       |-> None,
     latest_rc        |-> None,
     latest_beta      |-> None,
     latest_alpha     |-> None,
     latest_milestone |-> None]

OrElse(opt, x) == IF opt = None THEN Some(x) ELSE opt

\* variant of the loop body whose Snapshot arm is the Stable arm
CategorizeOne_snapshot_as_stable(acc, pair) ==
    LET any == [acc EXCEPT !.latest_any = OrElse(acc.latest_any, pair.str)]
        st  == pair.parsed.stability
    IN  IF st \in {"Stable", "Snapshot"} THEN
            [any EXCEPT !.stable_versions = Append(acc.stable_versions, pair.str),
                        !.latest_stable = OrElse(acc.latest_stable, pair.str)]
        ELSE IF st = "RC" THEN [any EXCEPT !.latest_rc = OrElse(acc.latest_rc, pair.str)]
        ELSE IF st = "Beta" THEN [any EXCEPT !.latest_beta = OrElse(acc.latest_beta, pair.str)]
        ELSE IF st = "Alpha" THEN [any EXCEPT !.latest_alpha = OrElse(acc.latest_alpha, pair.str)]
        ELSE [any EXCEPT !.latest_milestone = OrElse(acc.latest_milestone, pair.str)]

\* variant of CategorizeOne in which every stable version replaces
\* latest_stable
CategorizeOne_last_stable_wins(acc, pair) ==
    LET any == [acc EXCEPT !.latest_any = OrElse(acc.latest_any, pair.str)]
        st  == pair.parsed.stability
    IN  IF st = "Stable" THEN
            [any EXCEPT !.stable_versions = Append(acc.stable_versions, pair.str),
                        !.latest_stable = Some(pair.str)]
        ELSE IF st = "RC" THEN [any EXCEPT !.latest_rc = OrElse(acc.latest_rc, pair.str)]
        ELSE IF st = "Beta" THEN [any EXCEPT !.latest_beta = OrElse(acc.latest_beta, pair.str)]
        ELSE IF st = "Alpha" THEN [any EXCEPT !.latest_alpha = OrElse(acc.latest_alpha, pair.str)]
        ELSE IF st = "Milestone" THEN
            [any EXCEPT !.latest_milestone = OrElse(acc.latest_milestone, pair.str)]
        ELSE any

\* one iteration of `for (version_str, parsed) in &sorted_versions`
CategorizeOne(acc, pair) ==
    LET any == [acc EXCEPT !.latest_any = OrElse(acc.latest_any, pair.str)]
        st  == pair.parsed.stability
    IN  IF st = "Stable" THEN
            [any EXCEPT !.stable_versions = Append(acc.stable_versions, pair.str),
                        !.latest_stable = OrElse(acc.latest_stable, pair.str)]
        ELSE IF st = "RC" THEN [any EXCEPT !.latest_rc = OrElse(acc.latest_rc, pair.str)]
        ELSE IF st = "Beta" THEN [any EXCEPT !.latest_beta = OrElse(acc.latest_beta, pair.str)]
        ELSE IF st = "Alpha" THEN [any EXCEPT !.latest_alpha = OrElse(acc.latest_alpha, pair.str)]
        ELSE IF st = "Milestone" THEN
            [any EXCEPT !.latest_milestone = OrElse(acc.latest_milestone, pair.str)]
        ELSE any

RECURSIVE CategorizeFrom(_, _, _)
CategorizeFrom(sorted, i, acc) ==
    IF i > Len(sorted) THEN acc
    ELSE CategorizeFrom(sorted, i + 1, CategorizeOne(acc, sorted[i]))

\* the CachedMetadata built once sort_by has returned `sorted`
BuildCachedMetadata(md, sorted) ==
    LET cat == CategorizeFrom(sorted, 1, CategoriesStart)
    IN  [all_versions     |-> [i \in DOMAIN sorted |-> sorted[i].str],
         stable_versions  |-> cat.stable_versions,
         latest_stable    |-> cat.latest_stable,
         latest_any       |-> cat.latest_any,
         latest_rc        |-> cat.latest_rc,
         latest_beta      |-> cat.latest_beta,
         latest_alpha     |-> cat.latest_alpha,
         latest_milestone |-> cat.latest_milestone,
         last_updated     |-> get_last_updated(md)]

\* process_metadata: the snapshots it can return for md
process_metadata(md) ==
    { BuildCachedMetadata(md, sorted) : sorted \in sort_by(VersionPairs(get_versions(md))) }

----------------------------------------------------------------------------
(* Inputs of the classifier: words joined by '-', '.' or nothing            *)

MaxWords == 3          \* words per classified string

ClsWords == { <<"1">>, P_SNAPSHOT, W_alpha, W_a, <<"B","e","t","a">>, W_b,
              W_RC, <<"M","2">>, W_m }

ClsSeparators == { <<"-">>, <<".">>, <<>> }

\* words[1] seps[1] words[2] ... seps[n-1] words[n]
RECURSIVE JoinWords(_, _)
JoinWords(words, seps) ==
    IF Len(words) = 0 THEN <<>>
    ELSE IF Len(words) = 1 THEN words[1]
    ELSE JoinWords(SubSeq(words, 1, Len(words) - 1), SubSeq(seps, 1, Len(seps) - 1))
            \o seps[Len(seps)] \o words[Len(words)]

\* the strings of test_stability_classification, and 1.0.0-M
V_6_2_1          == <<"6",".","2",".","1">>
V_1_0_0_SNAPSHOT == V_1_0_0 \o <<"-">> \o P_SNAPSHOT
V_1_0_0_alpha_1  == V_1_0_0_alpha \o <<".","1">>
V_1_0_0_beta1    == V_1_0_0_beta \o <<"1">>
V_1_0_0_RC1      == V_1_0_0 \o <<"-">> \o W_RC \o <<"1">>
V_1_0_0_rc_1     == V_1_0_0 \o <<"-">> \o W_rc \o <<".","1">>
V_1_0_0_M1       == V_1_0_0 \o <<"-","M","1">>
V_1_0_0_dot_M2   == V_1_0_0 \o <<".","M","2">>
V_1_0_0_M        == V_1_0_0 \o <<"-","M">>

ClsNamed == { V_1_0_0, V_6_2_1, V_1_0_0_SNAPSHOT, V_1_0_0_alpha, V_1_0_0_alpha_1,
              V_1_0_0_beta, V_1_0_0_beta1, V_1_0_0_RC1, V_1_0_0_rc_1, V_1_0_0_M1,
              V_1_0_0_dot_M2, V_1_0_0_M }


----------------------------------------------------------------------------
(* Inputs of the metadata processor                                         *)

MaxVersions == 3       \* versions per generated registry document

V_1_0_foo      == V_1_0 \o <<"-">> \o W_foo
V_1_0_rc_us    == V_1_0 \o <<"_">> \o W_rc
V_2_1_SNAPSHOT == <<"2",".","1","-">> \o P_SNAPSHOT
V_2_0_0_M2     == V_2_0_0 \o <<"-","M","2">>
V_1_5_0        == <<"1",".","5",".","0">>
V_2_0_0_alpha  == V_2_0_0 \o <<"-">> \o W_alpha
V_2_0_0_beta   == V_2_0_0 \o <<"-">> \o W_beta
V_2_0_0_RC1    == V_2_0_0 \o <<"-">> \o W_RC \o <<"1">>

\* Three Stable versions (a number, a vendor suffix and an rc that the
\* classifier does not see behind '_'), one version of each pre-release
\* tier but Beta, and a SNAPSHOT that is greater than all of them.
VersionPool == { V_1_0_1, V_1_0_foo, V_1_0_rc_us, V_2_0_0_RC1, V_2_1_SNAPSHOT,
                 V_1_0_alpha, V_2_0_0_M2 }

\* the version list of test_process_metadata
TestVersions == << V_1_0_0, V_1_0_1, V_1_5_0, V_2_0_0_alpha, V_2_0_0_beta, V_2_0_0_RC1 >>

T_20241215103000 == <<"2","0","2","4","1","2","1","5","1","0","3","0","0","0">>

MetadataWith(versions, last_updated) ==
    [versioning |-> Some([versions |-> Some(versions), last_updated |-> last_updated])]

\* documents without a versioning block or without a versions element
BareMetadata ==
    { [versioning |-> None],
      [versioning |-> Some([versions |-> None, last_updated |-> Some(T_20241215103000)])] }

ProcInputs ==
    { MetadataWith(vs, lu) :
        vs \in SeqsUpTo(VersionPool, MaxVersions) \cup {TestVersions},
        lu \in {None, Some(T_20241215103000)} }
    \cup BareMetadata

----------------------------------------------------------------------------
(* UpdateType::between (models/version.rs)                                  *)

\* version.split(|c| !c.is_ascii_digit()).filter(|s| !s.is_empty()): the
\* maximal runs of ASCII digits, left to right
RECURSIVE DigitRunsFrom(_, _, _)
DigitRunsFrom(s, i, current) ==
    IF i > Len(s) THEN (IF current = <<>> THEN <<>> ELSE <<current>>)
    ELSE IF IsAsciiDigit(s[i]) THEN DigitRunsFrom(s, i + 1, Append(current, s[i]))
    ELSE (IF current = <<>> THEN <<>> ELSE <<current>>) \o DigitRunsFrom(s, i + 1, <<>>)

DigitRuns(s) == DigitRunsFrom(s, 1, <<>>)

\* s.parse::<u64>().ok() on a run of digits: the number, or nothing when it
\* does not fit 64 bits
ParseU64(run) ==
    LET canon == StripLeadingZeros(run)
    IN  IF U64Cmp(canon, U64Max) = "Greater" THEN None ELSE Some(canon)

\* filter_map(|s| s.parse().ok()).collect(): the runs that parse, in order
RECURSIVE CollectParsed(_)
CollectParsed(runs) ==
    IF runs = <<>> THEN <<>>
    ELSE LET n == ParseU64(Head(runs))
         IN  (IF n = None THEN <<>> ELSE <<n[1]>>) \o CollectParsed(Tail(runs))

extract_numeric_parts(version) == CollectParsed(DigitRuns(version))

\* parts.get(i).copied().unwrap_or(0)
GetOrZero(parts, i) == IF i <= Len(parts) THEN parts[i] ELSE <<"0">>

\* UpdateType::between
between(current, target) ==
    LET current_parts == extract_numeric_parts(current)
        target_parts  == extract_numeric_parts(target)
    IN  IF current_parts = <<>> \/ target_parts = <<>> THEN "Other"
        ELSE IF GetOrZero(target_parts, 1) # GetOrZero(current_parts, 1) THEN "Major"
        ELSE IF GetOrZero(target_parts, 2) # GetOrZero(current_parts, 2) THEN "Minor"
        ELSE "Patch"

\* Inputs of between: every string of up to MaxChars characters over two
\* digits, a separator and a letter, and named versions, among them numbers
\* of twenty digits.
MaxChars == 3

UpdChars == {"0", "1", ".", "a"}

V_overflow_1_0 == V_overflow \o <<".","1",".","0">>
V_overflow_2_0 == V_overflow \o <<".","2",".","0">>

UpdNamed ==
    { V_1_0_0, V_2_0_0, V_1_1_0, V_1_0_1, V_2_0_0_RC1,
      V_overflow, V_overflow_1_0, V_overflow_2_0 }

UpdInputs == SeqsUpTo(UpdChars, MaxChars) \cup UpdNamed

----------------------------------------------------------------------------
(* The harnesses' resting states                                            *)

CmpIdle ==
    /\ cmpA = <<>> /\ cmpB = <<>> /\ cmpC = <<>>
    /\ cmpDone = FALSE
    /\ cmpAB = "none" /\ cmpBA = "none" /\ cmpAA = "none"
    /\ cmpBC = "none" /\ cmpAC = "none"

ClsIdle == clsIn = <<>> /\ clsOut = "none"

ProcIdle == metadata = [versioning |-> None] /\ processed = None

CoordIdle == coordIn = <<>> /\ coordOut = None

UpdIdle == updCurrent = <<>> /\ updTarget = <<>> /\ updOut = "none"

HealthIdle ==
    /\ healthCurrent = <<>> /\ healthMetadata = None
    /\ healthOut = None /\ ageOut = None

TokIdle == tokIn = <<>> /\ tokOut = None

CvIdle ==
    /\ cvCurrent = <<>> /\ cvMetadata = None /\ cvStableOnly = FALSE /\ cvOut = None

AggIdle == aggResults = <<>> /\ aggOut = None

BatchIdle ==
    /\ batchKind = "none" /\ batchDeps = <<>> /\ batchStableOnly = FALSE
    /\ batchSlots = <<>> /\ batchResponse = None

ServiceIdle ==
    CoordIdle /\ UpdIdle /\ HealthIdle /\ AggIdle /\ BatchIdle /\ TokIdle /\ CvIdle

----------------------------------------------------------------------------
(* MavenCoordinate (models/coordinate.rs)                                   *)

G_org == <<"o","r","g">>
A_a   == <<"a">>
A_b   == <<"b">>

\* the coordinates callers ask about: one artifact with and without a
\* version, and a second artifact
Coordinates ==
    { [group_id |-> G_org, artifact_id |-> A_a, version |-> None],
      [group_id |-> G_org, artifact_id |-> A_a, version |-> Some(V_1_0)],
      [group_id |-> G_org, artifact_id |-> A_b, version |-> None] }

\* Display for MavenCoordinate: the version is part of the text
coordinate_to_string(c) ==
    IF c.version = None
    THEN c.group_id \o <<":">> \o c.artifact_id
    ELSE c.group_id \o <<":">> \o c.artifact_id \o <<":">> \o c.version[1]

\* variant of to_ga that formats the whole coordinate
to_ga_with_version(c) == coordinate_to_string(c)

to_ga(c) == c.group_id \o <<":">> \o c.artifact_id

\* str::trim removes leading and trailing white space
IsWhitespace(c) == c \in {" ", "\t", "\n", "\r"}

RECURSIVE TrimStart(_)
TrimStart(s) == IF s # <<>> /\ IsWhitespace(Head(s)) THEN TrimStart(Tail(s)) ELSE s

RECURSIVE TrimEnd(_)
TrimEnd(s) ==
    IF s # <<>> /\ IsWhitespace(s[Len(s)]) THEN TrimEnd(SubSeq(s, 1, Len(s) - 1)) ELSE s

Trim(s) == TrimEnd(TrimStart(s))

\* str::split(':'): the segments between the colons, empty ones included;
\* a string without a colon is one segment
RECURSIVE SplitOnFrom(_, _, _, _)
SplitOnFrom(s, ch, i, current) ==
    IF i > Len(s) THEN <<current>>
    ELSE IF s[i] = ch THEN <<current>> \o SplitOnFrom(s, ch, i + 1, <<>>)
    ELSE SplitOnFrom(s, ch, i + 1, Append(current, s[i]))

SplitOn(s, ch) == SplitOnFrom(s, ch, 1, <<>>)

\* Result<MavenCoordinate, CoordinateError>
CoordOk(c) == [ok |-> TRUE, value |-> c]
CoordErr(kind, text) == [ok |-> FALSE, value |-> [kind |-> kind, input |-> text]]

\* variant of EmptyIdError that tests the artifact before the group
EmptyIdError_artifact_first(group_id, artifact_id) ==
    IF artifact_id = <<>> THEN "EmptyArtifactId"
    ELSE IF group_id = <<>> THEN "EmptyGroupId"
    ELSE "none"

\* the two is_empty tests of either arm of parse, in their order
EmptyIdError(group_id, artifact_id) ==
    IF group_id = <<>> THEN "EmptyGroupId"
    ELSE IF artifact_id = <<>> THEN "EmptyArtifactId"
    ELSE "none"

\* variant of LastPart that takes the third segment
LastPart_third(parts) == parts[3]

\* parts.last().unwrap()
LastPart(parts) == parts[Len(parts)]

\* MavenCoordinate::parse
MavenCoordinateParse(raw) ==
    LET input == Trim(raw)
        parts == SplitOn(input, ":")
    IN  IF Len(parts) = 2
        THEN LET group_id    == Trim(parts[1])
                 artifact_id == Trim(parts[2])
                 error       == EmptyIdError(group_id, artifact_id)
             IN  IF error # "none" THEN CoordErr(error, <<>>)
                 ELSE CoordOk([group_id |-> group_id, artifact_id |-> artifact_id,
                               version |-> None])
        ELSE IF Len(parts) \in {3, 4, 5}
        THEN LET group_id    == Trim(parts[1])
                 artifact_id == Trim(parts[2])
                 version     == Trim(LastPart(parts))
                 error       == EmptyIdError(group_id, artifact_id)
             IN  IF error # "none" THEN CoordErr(error, <<>>)
                 ELSE CoordOk([group_id |-> group_id, artifact_id |-> artifact_id,
                               version |-> IF version = <<>> THEN None ELSE Some(version)])
        ELSE CoordErr("InvalidFormat", input)

\* Inputs of parse: up to MaxSegments segments joined by colons, a segment
\* being empty, blank, a word or a padded version, and the strings the
\* tests of coordinate.rs parse.
MaxSegments == 6

S_g == <<"g">>
S_blank == <<" ">>
S_padded_1_0 == <<" ">> \o V_1_0 \o <<" ">>

SegmentPool == { <<>>, S_blank, S_g, S_padded_1_0 }

RECURSIVE JoinOn(_, _)
JoinOn(segments, ch) ==
    IF Len(segments) = 0 THEN <<>>
    ELSE IF Len(segments) = 1 THEN segments[1]
    ELSE segments[1] \o <<ch>> \o JoinOn(Tail(segments), ch)

D_spring_ga == <<"o","r","g",".","s","p","r","i","n","g","f","r","a","m","e","w","o","r","k",":","s","p","r","i","n","g","-","c","o","r","e">>
D_spring_gav == <<"o","r","g",".","s","p","r","i","n","g","f","r","a","m","e","w","o","r","k",":","s","p","r","i","n","g","-","c","o","r","e",":","6",".","1",".","0">>
D_spring_jar == <<"o","r","g",".","s","p","r","i","n","g","f","r","a","m","e","w","o","r","k",":","s","p","r","i","n","g","-","c","o","r","e",":","j","a","r",":","6",".","1",".","0">>
D_invalid == <<"i","n","v","a","l","i","d">>
D_no_group == <<":","a","r","t","i","f","a","c","t">>
D_no_artifact == <<"g","r","o","u","p",":">>
G_springframework == <<"o","r","g",".","s","p","r","i","n","g","f","r","a","m","e","w","o","r","k">>
A_spring_core == <<"s","p","r","i","n","g","-","c","o","r","e">>
V_6_1_0 == <<"6",".","1",".","0">>

\* identifiers holding a path separator, and a padded single segment
D_slash_group == <<"o","r","g","/","x",":","a">>
D_backslash_artifact == <<"o","r","g",":","a","\\","b",":","1",".","0">>
D_padded_invalid == <<" ","i","n","v","a","l","i","d"," ">>

CoordNamed ==
    { D_spring_ga, D_spring_gav, D_spring_jar, D_invalid, <<>>, D_no_group, D_no_artifact,
      D_slash_group, D_backslash_artifact, D_padded_invalid }

----------------------------------------------------------------------------
(* MavenClient: the cache, the registry and get_metadata                    *)

CACHE_TTL_HOURS == 24
CACHE_MAX_ENTRIES == 1000

MaxTicks == 2          \* steps of the clock in one behaviour
MaxFetches == 2        \* fetches issued in one behaviour

\* the clock advances by half a time-to-live
TickHours == CACHE_TTL_HOURS \div 2

Callers == {"c1", "c2"}

\* the keys the modelled callers can produce
CacheKeys == { to_ga(c) : c \in Coordinates }

\* What the registry answers to a fetch at time t: its document for every
\* coordinate lists two versions at first, and three once a time-to-live
\* has passed.
RegistryDoc(t) ==
    IF t < CACHE_TTL_HOURS
    THEN MetadataWith(<<V_1_0, V_1_0_1>>, Some(T_20241215103000))
    ELSE MetadataWith(<<V_2_1_SNAPSHOT, V_1_0, V_1_0_1>>, None)

\* The registry's document for a coordinate: artifact b has one version, a
\* snapshot, and every other artifact the versions above.
RegistryDocFor(c, t) ==
    IF c.artifact_id = A_b THEN MetadataWith(<<V_2_1_SNAPSHOT>>, None)
    ELSE RegistryDoc(t)

IdleCall ==
    [pc |-> "idle", coordinate |-> None, processed |-> None,
     result |-> None, fetched |-> FALSE]

Ok(id) == Some([ok |-> TRUE, value |-> id])
Err    == Some([ok |-> FALSE, value |-> 0])

\* variant of IsLive for a cache without a time-to-live
IsLive_whatever_age(entry) == entry.inserted_at <= now

\* time_to_live: an entry is dropped from lookups TTL after its insert
IsLive(entry) == now - entry.inserted_at < CACHE_TTL_HOURS

\* Cache::get
cache_get(key) ==
    IF cache[key] # None /\ IsLive(cache[key][1]) THEN Some(cache[key][1].value) ELSE None

RECURSIVE SumOver(_, _)
SumOver(f, S) ==
    IF S = {} THEN 0
    ELSE LET x == CHOOSE y \in S : TRUE IN f[x] + SumOver(f, S \ {x})

TotalFetches == SumOver(fetches, DOMAIN fetches)

EntryCount == Cardinality({ k \in DOMAIN cache : cache[k] # None }) + others

ClientInit ==
    /\ now = 0
    /\ cache = [k \in CacheKeys |-> None]
    /\ others = 0
    /\ heap = <<>>
    /\ calls = [p \in Callers |-> IdleCall]
    /\ fetches = [k \in CacheKeys |-> 0]

\* get_metadata up to its first suspension on the network: the cache key,
\* the lookup, and on a hit the return of the cached Arc
LookupStep(p, c) ==
    /\ calls[p].pc \in {"idle", "returned"}
    /\ LET key == to_ga(c)
           hit == cache_get(key)
       IN  IF hit # None
           THEN /\ calls' = [calls EXCEPT ![p] =
                       [pc |-> "returned", coordinate |-> Some(c), processed |-> None,
                        result |-> Ok(hit[1]), fetched |-> FALSE]]
                /\ UNCHANGED fetches
           ELSE /\ TotalFetches < MaxFetches
                /\ calls' = [calls EXCEPT ![p] =
                       [pc |-> "fetching", coordinate |-> Some(c), processed |-> None,
                        result |-> None, fetched |-> TRUE]]
                /\ fetches' = [fetches EXCEPT ![key] = @ + 1]
    /\ UNCHANGED <<now, cache, others, heap>>

\* A caller that is not inside get_metadata calls it.
Lookup(p, c) == LookupStep(p, c) /\ UNCHANGED harnessVars

\* fetch_metadata returns a document and process_metadata builds the Arc
FetchOk(p) ==
    /\ calls[p].pc = "fetching"
    /\ \E snapshot \in process_metadata(RegistryDocFor(calls[p].coordinate[1], now)) :
          /\ heap' = Append(heap, snapshot)
          /\ calls' = [calls EXCEPT ![p].pc = "inserting",
                                    ![p].processed = Some(Len(heap) + 1)]
    /\ UNCHANGED <<now, cache, others, fetches, harnessVars>>

\* variant of FetchFail that invalidates the key on the way out
FetchFail_invalidating(p) ==
    /\ calls[p].pc = "fetching"
    /\ calls' = [calls EXCEPT ![p].pc = "returned", ![p].result = Err]
    /\ cache' = [cache EXCEPT ![to_ga(calls[p].coordinate[1])] = None]
    /\ UNCHANGED <<now, others, heap, fetches, harnessVars>>

\* fetch_metadata fails (transport, status or parse): `?` returns the error
FetchFailStep(p) ==
    /\ calls[p].pc = "fetching"
    /\ calls' = [calls EXCEPT ![p].pc = "returned", ![p].result = Err]
    /\ UNCHANGED <<now, cache, others, heap, fetches>>

FetchFail(p) == FetchFailStep(p) /\ UNCHANGED harnessVars

\* variant of Insert that keeps an entry another call installed meanwhile
\* and returns that one
Insert_if_absent(p) ==
    /\ calls[p].pc = "inserting"
    /\ LET key == to_ga(calls[p].coordinate[1])
           id  == IF cache_get(key) # None THEN cache_get(key)[1] ELSE calls[p].processed[1]
       IN  /\ cache' = [cache EXCEPT ![key] =
                  IF cache_get(key) # None THEN @
                  ELSE Some([value |-> id, inserted_at |-> now,
                             coordinate |-> calls[p].coordinate[1]])]
           /\ calls' = [calls EXCEPT ![p].pc = "returned", ![p].result = Ok(id)]
    /\ UNCHANGED <<now, others, heap, fetches, harnessVars>>

\* variant of InsertStep that, when the key still has an entry, writes the
\* new contents into the object of that entry and returns it
InsertStep_refreshing_in_place(p) ==
    /\ calls[p].pc = "inserting"
    /\ LET key == to_ga(calls[p].coordinate[1])
           id  == IF cache[key] # None THEN cache[key][1].value ELSE calls[p].processed[1]
       IN  /\ heap' = [heap EXCEPT ![id] = heap[calls[p].processed[1]]]
           /\ cache' = [cache EXCEPT ![key] =
                  Some([value |-> id, inserted_at |-> now,
                        coordinate |-> calls[p].coordinate[1]])]
           /\ calls' = [calls EXCEPT ![p].pc = "returned", ![p].result = Ok(id)]
    /\ UNCHANGED <<now, others, fetches>>

\* cache.insert(cache_key, processed.clone()) and the return of Ok(processed)
InsertStep(p) ==
    /\ calls[p].pc = "inserting"
    /\ LET key == to_ga(calls[p].coordinate[1])
           id  == calls[p].processed[1]
       IN  /\ cache' = [cache EXCEPT ![key] =
                  Some([value |-> id, inserted_at |-> now,
                        coordinate |-> calls[p].coordinate[1]])]
           /\ calls' = [calls EXCEPT ![p].pc = "returned", ![p].result = Ok(id)]
    /\ UNCHANGED <<now, others, heap, fetches>>

Insert(p) == InsertStep(p) /\ UNCHANGED harnessVars

Tick ==
    /\ now + TickHours <= MaxTicks * TickHours
    /\ now' = now + TickHours
    /\ UNCHANGED <<cache, others, heap, calls, fetches, harnessVars>>

\* the cache's housekeeping drops an expired entry
Expire(key) ==
    /\ cache[key] # None
    /\ ~IsLive(cache[key][1])
    /\ cache' = [cache EXCEPT ![key] = None]
    /\ UNCHANGED <<now, others, heap, calls, fetches, harnessVars>>

\* lookups of other coordinates fill the cache up to its capacity, and keep
\* it there
FillOthers ==
    /\ others < CACHE_MAX_ENTRIES
    /\ others' = CACHE_MAX_ENTRIES
    /\ UNCHANGED <<now, cache, heap, calls, fetches, harnessVars>>

\* over capacity, the eviction policy drops an entry of its choice
Evict(key) ==
    /\ EntryCount > CACHE_MAX_ENTRIES
    /\ cache[key] # None
    /\ cache' = [cache EXCEPT ![key] = None]
    /\ UNCHANGED <<now, others, heap, calls, fetches, harnessVars>>

----------------------------------------------------------------------------
(* The scoring of analyze_single_health (tools/service.rs)                  *)

\* metadata.stable_versions.iter().filter(|v| parse(v) > current_parsed).count()
stable_versions_since(current_version, snapshot) ==
    LET current_parsed == MavenVersionParse(current_version)
    IN  Cardinality({ i \in DOMAIN snapshot.stable_versions :
            compare(MavenVersionParse(snapshot.stable_versions[i]), current_parsed)
                = "Greater" })

AgeResult(age, score) == [age_classification |-> age, health_score |-> score]

\* variant of AgeAndScore whose Aging tier reaches up to six newer versions
AgeAndScore_aging_up_to_six(current_version, snapshot) ==
    LET n == stable_versions_since(current_version, snapshot)
    IN  IF n = 0 THEN AgeResult("Current", 100)
        ELSE IF n <= 2 THEN AgeResult("Fresh", 90)
        ELSE IF n <= 6 THEN AgeResult("Aging", 70)
        ELSE IF snapshot.latest_stable # None
        THEN (IF between(current_version, snapshot.latest_stable[1]) = "Major"
              THEN AgeResult("Outdated", 40)
              ELSE AgeResult("Stale", 50))
        ELSE AgeResult("Stale", 50)

\* the age classification and the health score
AgeAndScore(current_version, snapshot) ==
    LET n == stable_versions_since(current_version, snapshot)
    IN  IF n = 0 THEN AgeResult("Current", 100)
        ELSE IF n <= 2 THEN AgeResult("Fresh", 90)
        ELSE IF n <= 5 THEN AgeResult("Aging", 70)
        ELSE IF snapshot.latest_stable # None
        THEN (IF between(current_version, snapshot.latest_stable[1]) = "Major"
              THEN AgeResult("Outdated", 40)
              ELSE AgeResult("Stale", 50))
        ELSE AgeResult("Stale", 50)

\* the DependencyHealthResult built once get_metadata has returned Ok
HealthResult(coordinate, current_version, snapshot) ==
    LET scored == AgeAndScore(current_version, snapshot)
    IN  [dependency         |-> to_ga(coordinate),
         current_version    |-> Some(current_version),
         latest_version     |-> snapshot.latest_stable,
         age_classification |-> Some(scored.age_classification),
         health_score       |-> scored.health_score,
         update_type        |-> IF snapshot.latest_stable = None THEN None
                                ELSE Some(between(current_version, snapshot.latest_stable[1])),
         error              |-> None]

\* analyze_dependency_age: the entries of versions that compare greater
\* than the current version
CountNewer(versions, current_version) ==
    LET current_parsed == MavenVersionParse(current_version)
    IN  Cardinality({ i \in DOMAIN versions :
            compare(MavenVersionParse(versions[i]), current_parsed) = "Greater" })

\* variant of AgeClassificationOf that counts the versions of every tier
AgeClassificationOf_counting_all(current_version, snapshot) ==
    LET n == CountNewer(snapshot.all_versions, current_version)
    IN  IF n = 0 THEN "Current"
        ELSE IF n <= 2 THEN "Fresh"
        ELSE IF n <= 5 THEN "Aging"
        ELSE IF snapshot.latest_stable # None
        THEN (IF between(current_version, snapshot.latest_stable[1]) = "Major"
              THEN "Outdated" ELSE "Stale")
        ELSE "Stale"

\* analyze_dependency_age: the age classification
AgeClassificationOf(current_version, snapshot) ==
    LET n == CountNewer(snapshot.stable_versions, current_version)
    IN  IF n = 0 THEN "Current"
        ELSE IF n <= 2 THEN "Fresh"
        ELSE IF n <= 5 THEN "Aging"
        ELSE IF snapshot.latest_stable # None
        THEN (IF between(current_version, snapshot.latest_stable[1]) = "Major"
              THEN "Outdated" ELSE "Stale")
        ELSE "Stale"

\* the recommendation, by its kind and the count it quotes
AgeRecommendation(age, n) ==
    CASE age = "Current"  -> None
      [] age = "Fresh"    -> Some([kind |-> "minor updates available", count |-> 0])
      [] age = "Aging"    -> Some([kind |-> "several versions behind", count |-> n])
      [] age = "Stale"    -> Some([kind |-> "significantly outdated", count |-> n])
      [] age = "Outdated" -> Some([kind |-> "major version behind", count |-> 0])

\* the DependencyAgeResponse built once get_metadata has returned Ok
DependencyAgeResponse(coordinate, current_version, snapshot) ==
    LET age == AgeClassificationOf(current_version, snapshot)
        n   == CountNewer(snapshot.stable_versions, current_version)
    IN  [dependency            |-> to_ga(coordinate),
         version               |-> current_version,
         age_classification    |-> age,
         versions_since        |-> CountNewer(snapshot.all_versions, current_version),
         stable_versions_since |-> n,
         latest_stable         |-> snapshot.latest_stable,
         recommendation        |-> AgeRecommendation(age, n)]

\* Inputs of the scoring: the snapshot of a document listing up to MaxStable
\* of the versions below, and a current version that may or may not be one
\* of them.
MaxStable == 7

V_1_2_0 == <<"1",".","2",".","0">>
V_1_3_0 == <<"1",".","3",".","0">>
V_1_4_0 == <<"1",".","4",".","0">>

HealthPool == <<V_2_0_0, V_1_0_1, V_2_0_0_RC1, V_1_1_0, V_1_2_0, V_1_3_0, V_1_4_0, V_1_5_0>>

HealthCurrents == { V_1_0_0, V_1_3_0, V_2_0_0, V_1_0_foo, V_2_0_0_RC1 }

\* the versions of the pool at the positions in S, in the pool's order
Listing(S) == SelectSeq(HealthPool, LAMBDA v : \E i \in S : HealthPool[i] = v)

----------------------------------------------------------------------------
(* The aggregation of analyze_project_health (tools/service.rs) and         *)
(* HealthGrade::from_score (tools/responses.rs)                             *)

\* An f32 that is the quotient of two integers, kept as the pair.  The sums
\* and counts of the scores 40..100 of a batch are far below 2^24, so sum,
\* count and the thresholds of from_score are exact in f32, the quotient is
\* the correctly rounded one, and it lies on the same side of a threshold
\* as the exact quotient.
Ratio(num, den) == [num |-> num, den |-> den]

\* s >= k for an f32 s and a whole number k
AtLeast(s, k) == s.num >= k * s.den

\* HealthGrade::from_score
from_score(score) ==
    IF AtLeast(score, 90) THEN "A"
    ELSE IF AtLeast(score, 80) THEN "B"
    ELSE IF AtLeast(score, 70) THEN "C"
    ELSE IF AtLeast(score, 60) THEN "D"
    ELSE "F"

\* the DependencyHealthResult of an item that failed
HealthErrorResult(dependency, current_version, error) ==
    [dependency         |-> dependency,
     current_version    |-> current_version,
     latest_version     |-> None,
     age_classification |-> None,
     health_score       |-> 0,
     update_type        |-> None,
     error              |-> Some(error)]

TallyStart ==
    [current |-> 0, fresh |-> 0, aging |-> 0, stale |-> 0, outdated |-> 0,
     errors |-> 0, total_score |-> 0, scored_count |-> 0]

\* variant of TallyOne that counts an errored item as scored, with its 0
TallyOne_scoring_errors(t, result) ==
    IF result.error # None
    THEN [t EXCEPT !.errors = @ + 1, !.scored_count = @ + 1]
    ELSE IF result.age_classification # None
    THEN LET age == result.age_classification[1]
             u   == [t EXCEPT !.scored_count = @ + 1,
                              !.total_score = @ + result.health_score]
         IN  IF age = "Current" THEN [u EXCEPT !.current = @ + 1]
             ELSE IF age = "Fresh" THEN [u EXCEPT !.fresh = @ + 1]
             ELSE IF age = "Aging" THEN [u EXCEPT !.aging = @ + 1]
             ELSE IF age = "Stale" THEN [u EXCEPT !.stale = @ + 1]
             ELSE [u EXCEPT !.outdated = @ + 1]
    ELSE t

\* the body of `for result in &results`
TallyOne(t, result) ==
    IF result.error # None
    THEN [t EXCEPT !.errors = @ + 1]
    ELSE IF result.age_classification # None
    THEN LET age == result.age_classification[1]
             u   == [t EXCEPT !.scored_count = @ + 1,
                              !.total_score = @ + result.health_score]
         IN  IF age = "Current" THEN [u EXCEPT !.current = @ + 1]
             ELSE IF age = "Fresh" THEN [u EXCEPT !.fresh = @ + 1]
             ELSE IF age = "Aging" THEN [u EXCEPT !.aging = @ + 1]
             ELSE IF age = "Stale" THEN [u EXCEPT !.stale = @ + 1]
             ELSE [u EXCEPT !.outdated = @ + 1]
    ELSE t

RECURSIVE TallyFrom(_, _, _)
TallyFrom(results, i, t) ==
    IF i > Len(results) THEN t
    ELSE TallyFrom(results, i + 1, TallyOne(t, results[i]))

\* the recommendations, by their kind
Recommendations(t, total) ==
    (IF t.outdated > 0 THEN <<"major version behind">> ELSE <<>>)
    \o (IF t.stale > 0 THEN <<"significantly outdated">> ELSE <<>>)
    \o (IF t.aging > 0 THEN <<"updates available">> ELSE <<>>)
    \o (IF t.current + t.fresh = total - t.errors THEN <<"all up to date">> ELSE <<>>)

\* the ProjectHealthResponse built from the results of join_all
ProjectHealthResponse(results) ==
    LET t == TallyFrom(results, 1, TallyStart)
        health_score == IF t.scored_count > 0
                        THEN Ratio(t.total_score, t.scored_count)
                        ELSE Ratio(0, 1)
    IN  [total_dependencies |-> Len(results),
         health_score       |-> health_score,
         health_grade       |-> from_score(health_score),
         summary            |-> [current |-> t.current, fresh |-> t.fresh,
                                 aging |-> t.aging, stale |-> t.stale,
                                 outdated |-> t.outdated, errors |-> t.errors],
         dependencies       |-> results,
         recommendations    |-> Recommendations(t, Len(results))]

\* Inputs of the aggregation: up to MaxResults results, each an errored one
\* or the result of scoring a version against a snapshot, one per tier.
MaxResults == 3

C_org_a == [group_id |-> G_org, artifact_id |-> A_a, version |-> None]

SnapshotOf(versions) == CHOOSE snapshot \in process_metadata(MetadataWith(versions, None)) : TRUE

E_version_required == "Version is required for health analysis"

AggItems ==
    { HealthResult(C_org_a, v, SnapshotOf(HealthPool)) :
          v \in {V_2_0_0, V_1_4_0, V_1_3_0, V_1_0_0} }
    \cup { HealthResult(C_org_a, V_1_0_0, SnapshotOf(SubSeq(HealthPool, 2, 8))) }
    \cup { HealthErrorResult(to_ga(C_org_a), None, E_version_required) }

----------------------------------------------------------------------------
(* check_single_dependency, analyze_single_health and the two batch tools   *)
(* (tools/service.rs)                                                       *)

E_fetch_failed == "Failed to fetch metadata"
E_no_versions  == "No versions found"

\* the DependencyCheckResult of an item that failed
CheckErrorResult(dependency, current_version, error) ==
    [dependency      |-> dependency,
     current_version |-> current_version,
     latest_version  |-> None,
     is_outdated     |-> FALSE,
     update_type     |-> None,
     error           |-> Some(error)]

\* variant of CheckResult that reports a version equal to the latest one
\* as outdated
CheckResult_outdated_when_equal(coordinate, stable_only, snapshot) ==
    LET current_version == coordinate.version
        latest_version  == IF stable_only THEN snapshot.latest_stable
                           ELSE snapshot.latest_any
    IN  IF current_version # None /\ latest_version # None
        THEN LET current     == current_version[1]
                 latest      == latest_version[1]
                 is_outdated == compare(MavenVersionParse(current),
                                        MavenVersionParse(latest)) # "Greater"
             IN  [dependency      |-> to_ga(coordinate),
                  current_version |-> Some(current),
                  latest_version  |-> Some(latest),
                  is_outdated     |-> is_outdated,
                  update_type     |-> IF is_outdated THEN Some(between(current, latest))
                                      ELSE None,
                  error           |-> None]
        ELSE IF current_version = None /\ latest_version # None
        THEN [dependency      |-> to_ga(coordinate),
              current_version |-> None,
              latest_version  |-> latest_version,
              is_outdated     |-> FALSE,
              update_type     |-> None,
              error           |-> None]
        ELSE CheckErrorResult(to_ga(coordinate), current_version, E_no_versions)

\* check_single_dependency once get_metadata has returned Ok
CheckResult(coordinate, stable_only, snapshot) ==
    LET current_version == coordinate.version
        latest_version  == IF stable_only THEN snapshot.latest_stable
                           ELSE snapshot.latest_any
    IN  IF current_version # None /\ latest_version # None
        THEN LET current     == current_version[1]
                 latest      == latest_version[1]
                 is_outdated == compare(MavenVersionParse(current),
                                        MavenVersionParse(latest)) = "Less"
             IN  [dependency      |-> to_ga(coordinate),
                  current_version |-> Some(current),
                  latest_version  |-> Some(latest),
                  is_outdated     |-> is_outdated,
                  update_type     |-> IF is_outdated THEN Some(between(current, latest))
                                      ELSE None,
                  error           |-> None]
        ELSE IF current_version = None /\ latest_version # None
        THEN [dependency      |-> to_ga(coordinate),
              current_version |-> None,
              latest_version  |-> latest_version,
              is_outdated     |-> FALSE,
              update_type     |-> None,
              error           |-> None]
        ELSE CheckErrorResult(to_ga(coordinate), current_version, E_no_versions)

\* What an item returns before it calls get_metadata, if it does: the error
\* of MavenCoordinate::parse, or for the health analysis a coordinate
\* without a version.
EarlyResult(kind, dependency) ==
    LET parsed == MavenCoordinateParse(dependency)
    IN  IF ~parsed.ok
        THEN Some(IF kind = "check"
                  THEN CheckErrorResult(dependency, None, parsed.value.kind)
                  ELSE HealthErrorResult(dependency, None, parsed.value.kind))
        ELSE IF kind = "health" /\ parsed.value.version = None
        THEN Some(HealthErrorResult(to_ga(parsed.value), None, E_version_required))
        ELSE None

\* What an item returns once get_metadata has returned outcome; snapshots
\* is the heap the Arc of an Ok points into.
LateResult(kind, coordinate, stable_only, outcome, snapshots) ==
    IF ~outcome.ok
    THEN (IF kind = "check"
          THEN CheckErrorResult(to_ga(coordinate), coordinate.version, E_fetch_failed)
          ELSE HealthErrorResult(to_ga(coordinate), coordinate.version, E_fetch_failed))
    ELSE IF kind = "check"
    THEN CheckResult(coordinate, stable_only, snapshots[outcome.value])
    ELSE HealthResult(coordinate, coordinate.version[1], snapshots[outcome.value])

CountStart ==
    [outdated_count |-> 0, up_to_date_count |-> 0, error_count |-> 0,
     major_updates |-> 0, minor_updates |-> 0, patch_updates |-> 0]

\* variant of CountOne that counts an errored item as up to date as well
CountOne_errors_also_up_to_date(t, result) ==
    IF result.error # None
    THEN [t EXCEPT !.error_count = @ + 1, !.up_to_date_count = @ + 1]
    ELSE IF result.is_outdated
    THEN LET u == [t EXCEPT !.outdated_count = @ + 1]
         IN  IF result.update_type = Some("Major") THEN [u EXCEPT !.major_updates = @ + 1]
             ELSE IF result.update_type = Some("Minor") THEN [u EXCEPT !.minor_updates = @ + 1]
             ELSE IF result.update_type = Some("Patch") THEN [u EXCEPT !.patch_updates = @ + 1]
             ELSE u
    ELSE [t EXCEPT !.up_to_date_count = @ + 1]

\* the body of `for result in &results` of check_multiple_dependencies
CountOne(t, result) ==
    IF result.error # None THEN [t EXCEPT !.error_count = @ + 1]
    ELSE IF result.is_outdated
    THEN LET u == [t EXCEPT !.outdated_count = @ + 1]
         IN  IF result.update_type = Some("Major") THEN [u EXCEPT !.major_updates = @ + 1]
             ELSE IF result.update_type = Some("Minor") THEN [u EXCEPT !.minor_updates = @ + 1]
             ELSE IF result.update_type = Some("Patch") THEN [u EXCEPT !.patch_updates = @ + 1]
             ELSE u
    ELSE [t EXCEPT !.up_to_date_count = @ + 1]

RECURSIVE CountFrom(_, _, _)
CountFrom(results, i, t) ==
    IF i > Len(results) THEN t
    ELSE CountFrom(results, i + 1, CountOne(t, results[i]))

\* the BulkCheckResponse built from the results of join_all
BulkCheckResponse(results) ==
    LET t == CountFrom(results, 1, CountStart)
    IN  [total_checked    |-> Len(results),
         outdated_count   |-> t.outdated_count,
         up_to_date_count |-> t.up_to_date_count,
         error_count      |-> t.error_count,
         dependencies     |-> results,
         summary          |-> [major_updates |-> t.major_updates,
                               minor_updates |-> t.minor_updates,
                               patch_updates |-> t.patch_updates]]

\* join_all: one slot per future, in the order of the futures; rank is the
\* position of the future among the completions
StartSlot == [pc |-> "start", rank |-> 0, output |-> None]

DoneSlots(slots) == { i \in DOMAIN slots : slots[i].pc = "done" }

\* variant of Complete in which a failing future takes the futures that
\* have not completed down with it
Complete_aborting_siblings(slots, i, result) ==
    IF result.error = None
    THEN [slots EXCEPT ![i] = [pc |-> "done",
                               rank |-> Cardinality(DoneSlots(slots)) + 1,
                               output |-> Some(result)]]
    ELSE [k \in DOMAIN slots |->
            IF slots[k].pc = "done" THEN slots[k]
            ELSE [pc |-> "done",
                  rank |-> Cardinality(DoneSlots(slots)) + 1,
                  output |-> Some(result)]]

Complete(slots, i, result) ==
    [slots EXCEPT ![i] = [pc |-> "done",
                          rank |-> Cardinality(DoneSlots(slots)) + 1,
                          output |-> Some(result)]]

\* variant of JoinResults that hands the outputs out as they completed
JoinResults_as_completed(slots) ==
    [k \in DOMAIN slots |->
        slots[CHOOSE i \in DOMAIN slots : slots[i].rank = k].output[1]]

\* the Vec join_all resolves to: the output of the i-th future at index i
JoinResults(slots) == [i \in DOMAIN slots |-> slots[i].output[1]]

\* CallToolResult::success with the serialized response
ToolSuccess(response) == [is_error |-> FALSE, content |-> response]

\* Inputs of a batch: up to MaxDeps dependency strings, each a coordinate
\* with a version, one of an artifact without stable versions, one
\* without a version, or a malformed one; two lists of three whose second
\* string is malformed; and a list of a coordinate at the latest version
\* and one without a version.
MaxDeps == 2

D_org_a_1_0 == G_org \o <<":">> \o A_a \o <<":">> \o V_1_0
D_org_b_1_0 == G_org \o <<":">> \o A_b \o <<":">> \o V_1_0
D_org_a     == G_org \o <<":">> \o A_a

DepPool == { D_org_a_1_0, D_org_b_1_0, D_org_a, D_invalid }

D_org_a_1_0_1 == G_org \o <<":">> \o A_a \o <<":">> \o V_1_0_1

BatchNamed ==
    { <<D_org_a_1_0, D_invalid, D_org_b_1_0>>,
      <<D_org_a_1_0, D_invalid, D_org_a_1_0>>,
      <<D_org_a_1_0_1, D_org_a>> }

\* The first poll of the i-th future: MavenCoordinate::parse, the early
\* returns, and get_metadata up to its suspension on the network; on a
\* cache hit the future runs to its end.
ItemStart(i) ==
    /\ batchResponse = None
    /\ i \in DOMAIN batchSlots
    /\ batchSlots[i].pc = "start"
    /\ LET early == EarlyResult(batchKind, batchDeps[i])
       IN  IF early # None
           THEN /\ batchSlots' = Complete(batchSlots, i, early[1])
                /\ UNCHANGED clientVars
           ELSE LET c == MavenCoordinateParse(batchDeps[i]).value
                IN  /\ LookupStep(i, c)
                    /\ batchSlots' =
                          IF calls'[i].pc = "returned"
                          THEN Complete(batchSlots, i,
                                   LateResult(batchKind, c, batchStableOnly,
                                              calls'[i].result[1], heap))
                          ELSE [batchSlots EXCEPT ![i].pc = "awaiting"]
    /\ UNCHANGED <<batchKind, batchDeps, batchStableOnly, batchResponse>>
    /\ UNCHANGED <<cmpVars, clsVars, procVars, serviceVars>>

\* the i-th future's fetch returns a document, which is processed
ItemFetched(i) ==
    /\ i \in DOMAIN batchSlots
    /\ batchSlots[i].pc = "awaiting"
    /\ FetchOk(i)

\* the i-th future installs its snapshot, get_metadata returns Ok and the
\* future runs to its end
ItemInstall(i) ==
    /\ i \in DOMAIN batchSlots
    /\ batchSlots[i].pc = "awaiting"
    /\ InsertStep(i)
    /\ batchSlots' = Complete(batchSlots, i,
                         LateResult(batchKind, calls[i].coordinate[1], batchStableOnly,
                                    calls'[i].result[1], heap))
    /\ UNCHANGED <<batchKind, batchDeps, batchStableOnly, batchResponse>>
    /\ UNCHANGED <<cmpVars, clsVars, procVars, serviceVars>>

\* the i-th future's fetch fails, get_metadata returns Err and the future
\* returns its error result
ItemFetchFail(i) ==
    /\ i \in DOMAIN batchSlots
    /\ batchSlots[i].pc = "awaiting"
    /\ FetchFailStep(i)
    /\ batchSlots' = Complete(batchSlots, i,
                         LateResult(batchKind, calls[i].coordinate[1], batchStableOnly,
                                    calls'[i].result[1], heap))
    /\ UNCHANGED <<batchKind, batchDeps, batchStableOnly, batchResponse>>
    /\ UNCHANGED <<cmpVars, clsVars, procVars, serviceVars>>

\* variant of Join that resolves as soon as one future has completed, with
\* the outputs there are
Join_on_first_completion ==
    /\ batchResponse = None
    /\ batchKind # "none"
    /\ \E i \in DOMAIN batchSlots : batchSlots[i].pc = "done"
    /\ LET done    == SelectSeq(batchSlots, LAMBDA slot : slot.pc = "done")
           results == [k \in DOMAIN done |-> done[k].output[1]]
       IN  batchResponse' =
               Some(ToolSuccess(IF batchKind = "check"
                                THEN BulkCheckResponse(results)
                                ELSE ProjectHealthResponse(results)))
    /\ UNCHANGED <<batchKind, batchDeps, batchStableOnly, batchSlots>>
    /\ UNCHANGED <<cmpVars, clsVars, procVars, serviceVars, clientVars>>

\* every future has completed: join_all resolves, the tool aggregates and
\* returns its response
Join ==
    /\ batchResponse = None
    /\ batchKind # "none"
    /\ \A i \in DOMAIN batchSlots : batchSlots[i].pc = "done"
    /\ LET results == JoinResults(batchSlots)
       IN  batchResponse' =
               Some(ToolSuccess(IF batchKind = "check"
                                THEN BulkCheckResponse(results)
                                ELSE ProjectHealthResponse(results)))
    /\ UNCHANGED <<batchKind, batchDeps, batchStableOnly, batchSlots>>
    /\ UNCHANGED <<cmpVars, clsVars, procVars, serviceVars, clientVars>>

----------------------------------------------------------------------------
(* Specifications                                                           *)

\* the client and its callers
Init == ClientInit /\ CmpIdle /\ ClsIdle /\ ProcIdle /\ ServiceIdle
Next ==
    \/ \E p \in Callers, c \in Coordinates : Lookup(p, c)
    \/ \E p \in Callers : FetchOk(p)
    \/ \E p \in Callers : FetchFail(p)
    \/ \E p \in Callers : Insert(p)
    \/ Tick
    \/ \E key \in CacheKeys : Expire(key)
    \/ FillOthers
    \/ \E key \in CacheKeys : Evict(key)
Spec == Init /\ [][Next]_vars

\* MavenVersion::parse and compare applied to a pair of version strings
Compare ==
    /\ ~cmpDone
    /\ LET a == MavenVersionParse(cmpA)
           b == MavenVersionParse(cmpB)
           c == MavenVersionParse(cmpC)
       IN  /\ cmpAB' = compare(a, b)
           /\ cmpBA' = compare(b, a)
           /\ cmpAA' = compare(a, a)
           /\ cmpBC' = compare(b, c)
           /\ cmpAC' = compare(a, c)
    /\ cmpDone' = TRUE
    /\ UNCHANGED <<cmpA, cmpB, cmpC>>

CmpResultsUnset ==
    /\ cmpDone = FALSE
    /\ cmpAB = "none" /\ cmpBA = "none" /\ cmpAA = "none"
    /\ cmpBC = "none" /\ cmpAC = "none"

InitCompare ==
    /\ cmpA \in CmpInputs /\ cmpB \in CmpInputs /\ cmpC = <<>>
    /\ CmpResultsUnset
    /\ ClsIdle /\ ProcIdle /\ ClientInit /\ ServiceIdle
NextCompare == Compare /\ UNCHANGED <<clsVars, procVars, clientVars, serviceVars, batchVars>>
SpecCompare == InitCompare /\ [][NextCompare]_vars

\* the same, on triples of version strings
InitTriple ==
    /\ cmpA \in TripleInputs /\ cmpB \in TripleInputs /\ cmpC \in TripleInputs
    /\ CmpResultsUnset
    /\ ClsIdle /\ ProcIdle /\ ClientInit /\ ServiceIdle
SpecTriple == InitTriple /\ [][NextCompare]_vars

\* VersionStability::classify applied to a string
Classify ==
    /\ clsOut = "none"
    /\ clsOut' = classify(clsIn)
    /\ UNCHANGED clsIn

InitClassify ==
    /\ \/ clsIn \in ClsNamed \cup { <<>> }
       \/ \E n \in 1..MaxWords :
             \E words \in [1..n -> ClsWords], seps \in [1..(n - 1) -> ClsSeparators] :
                 clsIn = JoinWords(words, seps)
    /\ clsOut = "none"
    /\ CmpIdle /\ ProcIdle /\ ClientInit /\ ServiceIdle
NextClassify == Classify /\ UNCHANGED <<cmpVars, procVars, clientVars, serviceVars, batchVars>>
SpecClassify == InitClassify /\ [][NextClassify]_vars

\* process_metadata applied to a registry document
ProcessMetadata ==
    /\ processed = None
    /\ \E snapshot \in process_metadata(metadata) : processed' = Some(snapshot)
    /\ UNCHANGED metadata

InitProcess ==
    /\ metadata \in ProcInputs /\ processed = None
    /\ CmpIdle /\ ClsIdle /\ ClientInit /\ ServiceIdle
NextProcess == ProcessMetadata /\ UNCHANGED <<cmpVars, clsVars, clientVars, serviceVars, batchVars>>
SpecProcess == InitProcess /\ [][NextProcess]_vars

\* MavenCoordinate::parse applied to a string
ParseCoordinate ==
    /\ coordOut = None
    /\ coordOut' = Some(MavenCoordinateParse(coordIn))
    /\ UNCHANGED coordIn

InitCoordinate ==
    /\ \/ coordIn \in CoordNamed
       \/ \E n \in 1..MaxSegments :
             \E segments \in [1..n -> SegmentPool] : coordIn = JoinOn(segments, ":")
    /\ coordOut = None
    /\ UpdIdle /\ HealthIdle /\ AggIdle /\ BatchIdle
    /\ CmpIdle /\ ClsIdle /\ ProcIdle /\ ClientInit /\ TokIdle /\ CvIdle
NextCoordinate ==
    ParseCoordinate /\ UNCHANGED <<cmpVars, clsVars, procVars, clientVars, tokVars, cvVars,
                                   updVars, healthVars, aggVars, batchVars>>
SpecCoordinate == InitCoordinate /\ [][NextCoordinate]_vars

\* UpdateType::between applied to a pair of version strings
Between ==
    /\ updOut = "none"
    /\ updOut' = between(updCurrent, updTarget)
    /\ UNCHANGED <<updCurrent, updTarget>>

InitBetween ==
    /\ updCurrent \in UpdInputs /\ updTarget \in UpdInputs /\ updOut = "none"
    /\ CoordIdle /\ HealthIdle /\ AggIdle /\ BatchIdle
    /\ CmpIdle /\ ClsIdle /\ ProcIdle /\ ClientInit /\ TokIdle /\ CvIdle
NextBetween ==
    Between /\ UNCHANGED <<cmpVars, clsVars, procVars, clientVars, tokVars, cvVars,
                           coordVars, healthVars, aggVars, batchVars>>
SpecBetween == InitBetween /\ [][NextBetween]_vars

\* the scoring of analyze_single_health applied to a version and a snapshot
AnalyzeHealth ==
    /\ healthOut = None
    /\ healthMetadata # None
    /\ healthOut' = Some(HealthResult(
                        [group_id |-> G_org, artifact_id |-> A_a,
                         version |-> Some(healthCurrent)],
                        healthCurrent, healthMetadata[1]))
    /\ UNCHANGED <<healthCurrent, healthMetadata, ageOut>>

\* analyze_dependency_age on the same version and snapshot
AnalyzeAge ==
    /\ ageOut = None
    /\ healthMetadata # None
    /\ ageOut' = Some(DependencyAgeResponse(
                      [group_id |-> G_org, artifact_id |-> A_a,
                       version |-> Some(healthCurrent)],
                      healthCurrent, healthMetadata[1]))
    /\ UNCHANGED <<healthCurrent, healthMetadata, healthOut>>

InitHealth ==
    /\ healthCurrent \in HealthCurrents
    /\ \E S \in SUBSET (DOMAIN HealthPool) :
          /\ Cardinality(S) <= MaxStable
          /\ \E snapshot \in process_metadata(MetadataWith(Listing(S), None)) :
                healthMetadata = Some(snapshot)
    /\ healthOut = None /\ ageOut = None
    /\ CoordIdle /\ UpdIdle /\ AggIdle /\ BatchIdle
    /\ CmpIdle /\ ClsIdle /\ ProcIdle /\ ClientInit /\ TokIdle /\ CvIdle
NextHealth ==
    \/ AnalyzeHealth /\ UNCHANGED <<cmpVars, clsVars, procVars, clientVars, tokVars, cvVars,
                                    coordVars, updVars, aggVars, batchVars>>
    \/ AnalyzeAge /\ UNCHANGED <<cmpVars, clsVars, procVars, clientVars, tokVars, cvVars,
                                 coordVars, updVars, aggVars, batchVars>>
SpecHealth == InitHealth /\ [][NextHealth]_vars

\* the aggregation of analyze_project_health applied to a result list
Aggregate ==
    /\ aggOut = None
    /\ aggOut' = Some(ProjectHealthResponse(aggResults))
    /\ UNCHANGED aggResults

InitAggregate ==
    /\ aggResults \in SeqsUpTo(AggItems, MaxResults)
    /\ aggOut = None
    /\ CoordIdle /\ UpdIdle /\ HealthIdle /\ BatchIdle
    /\ CmpIdle /\ ClsIdle /\ ProcIdle /\ ClientInit /\ TokIdle /\ CvIdle
NextAggregate ==
    Aggregate /\ UNCHANGED <<cmpVars, clsVars, procVars, clientVars, tokVars, cvVars,
                             coordVars, updVars, healthVars, batchVars>>
SpecAggregate == InitAggregate /\ [][NextAggregate]_vars

\* one call of check_multiple_dependencies or analyze_project_health on a
\* new client; the i-th future is caller i of get_metadata
InitBatch ==
    /\ \/ batchKind = "check" /\ batchStableOnly \in BOOLEAN
       \/ batchKind = "health" /\ batchStableOnly = FALSE
    /\ batchDeps \in SeqsUpTo(DepPool, MaxDeps) \cup BatchNamed
    /\ batchSlots = [i \in DOMAIN batchDeps |-> StartSlot]
    /\ batchResponse = None
    /\ now = 0
    /\ cache = [k \in CacheKeys |-> None]
    /\ others = 0
    /\ heap = <<>>
    /\ calls = [i \in DOMAIN batchDeps |-> IdleCall]
    /\ fetches = [k \in CacheKeys |-> 0]
    /\ CoordIdle /\ UpdIdle /\ HealthIdle /\ AggIdle
    /\ CmpIdle /\ ClsIdle /\ ProcIdle /\ TokIdle /\ CvIdle
NextBatch ==
    \/ \E i \in DOMAIN batchDeps : ItemStart(i)
    \/ \E i \in DOMAIN batchDeps : ItemFetched(i)
    \/ \E i \in DOMAIN batchDeps : ItemInstall(i)
    \/ \E i \in DOMAIN batchDeps : ItemFetchFail(i)
    \/ Join
SpecBatch == InitBatch /\ [][NextBatch]_vars

\* The batch under its scheduling. join_all polls every pending future
\* each time the task is woken, so a future that can run runs; a fetch
\* returns, with a document or with an error, within the timeout of the
\* HTTP client; and the tool runs on once join_all has resolved. Whether a
\* future can run is decided by its early return or by its step inside
\* get_metadata, so the fairness conditions are on those parts of the item
\* actions, over the variables they write.
ItemIds == 1..(MaxDeps + 1)

StartGuard(i) ==
    /\ batchResponse = None
    /\ i \in DOMAIN batchSlots
    /\ batchSlots[i].pc = "start"

\* ItemStart(i) for an input that returns before get_metadata
ItemReturnsEarly(i) ==
    /\ StartGuard(i)
    /\ EarlyResult(batchKind, batchDeps[i]) # None
    /\ ItemStart(i)

\* the lookup of ItemStart(i)
ItemLooksUp(i) ==
    /\ StartGuard(i)
    /\ EarlyResult(batchKind, batchDeps[i]) = None
    /\ \E parsed \in {MavenCoordinateParse(batchDeps[i])} : LookupStep(i, parsed.value)

\* the return of the fetch of ItemFetched(i) or ItemFetchFail(i)
ItemFetchReturns(i) ==
    /\ i \in DOMAIN batchSlots
    /\ batchSlots[i].pc = "awaiting"
    /\ (FetchFailStep(i) \/ FetchOk(i))

\* the insert of ItemInstall(i)
ItemInserts(i) ==
    /\ i \in DOMAIN batchSlots
    /\ batchSlots[i].pc = "awaiting"
    /\ InsertStep(i)

BatchFairness ==
    /\ \A i \in ItemIds : WF_vars(ItemReturnsEarly(i))
    /\ \A i \in ItemIds : WF_clientVars(ItemLooksUp(i))
    /\ \A i \in ItemIds : WF_clientVars(ItemFetchReturns(i))
    /\ \A i \in ItemIds : WF_clientVars(ItemInserts(i))
    /\ WF_vars(Join)

\* the batches followed to their end: the named lists, the empty batch
\* and the batches of one
InitBatchLive ==
    /\ InitBatch
    /\ batchDeps \in BatchNamed \cup SeqsUpTo(DepPool, 1)

SpecBatchLive == InitBatchLive /\ [][NextBatch]_vars /\ BatchFairness

----------------------------------------------------------------------------
(* Properties of the comparator                                             *)

Reverse(ord) == IF ord = "Less" THEN "Greater" ELSE IF ord = "Greater" THEN "Less" ELSE ord

PositionIn(seq, x) == CHOOSE i \in DOMAIN seq : seq[i] = x

\* the known qualifiers, as the specification lists them
KnownQualifiers == { W_alpha, W_beta, W_rc, W_cr, W_snapshot, W_m, W_milestone, W_a, W_b }

PartsA == parse_parts(cmpA)
PartsB == parse_parts(cmpB)

\* C1: compare orders 1.0.0-alpha < 1.0.0-beta < 1.0.0-rc1 < 1.0.0 < 1.0.1 <
\* 1.1.0 < 2.0.0 strictly ascending: an earlier version is Less than a later
\* one, a later one Greater than an earlier one, and each is Equal to itself.
C1_AscendingOrder ==
    (cmpDone /\ cmpA \in RangeOf(AscendingVersions) /\ cmpB \in RangeOf(AscendingVersions)) =>
        LET i == PositionIn(AscendingVersions, cmpA)
            j == PositionIn(AscendingVersions, cmpB)
        IN  /\ cmpAA = "Equal"
            /\ cmpAB = IntCmp(i, j)
            /\ cmpBA = IntCmp(j, i)

C1_Witness ==
    /\ cmpDone
    /\ cmpA = V_1_0_0_rc1 /\ cmpB = V_1_0_0
    /\ cmpAB = "Less" /\ cmpBA = "Greater"

\* C2: compare is transitive: a <= b and b <= c imply a <= c, a < b and
\* b < c imply a < c, and a = b and b = c imply a = c.
C2_Transitive ==
    cmpDone =>
        /\ (cmpAB # "Greater" /\ cmpBC # "Greater") => cmpAC # "Greater"
        /\ (cmpAB = "Less" /\ cmpBC = "Less") => cmpAC = "Less"
        /\ (cmpAB = "Equal" /\ cmpBC = "Equal") => cmpAC = "Equal"

\* C3: compare is reflexive and antisymmetric: compare(a, a) is Equal and
\* compare(b, a) is the reverse of compare(a, b).
C3_ReflexiveAntisymmetric ==
    cmpDone =>
        /\ cmpAA = "Equal"
        /\ cmpBA = Reverse(cmpAB)

\* sequences of different lengths, an unrecognized text among the tokens
C3_Witness ==
    /\ cmpDone
    /\ Len(PartsA) > Len(PartsB)
    /\ \E i \in DOMAIN PartsA : PartsA[i] = [kind |-> "String", value |-> W_foo]
    /\ \E i \in DOMAIN PartsB : PartsB[i].kind = "Number"
    /\ cmpAB = "Greater" /\ cmpBA = "Less"

\* the two sequences compare Equal before index i and hold a Number and a
\* Text at index i
MixedAt(pa, pb, i) ==
    /\ i <= Len(pa) /\ i <= Len(pb)
    /\ pa[i].kind # pb[i].kind
    /\ CompareParts(SubSeq(pa, 1, i - 1), SubSeq(pb, 1, i - 1)) = "Equal"

\* C4: rule 3.  Where the sequences are equal before index i and hold a
\* Number against a Text at i, the side of the Text is the lesser one if the
\* text is a known qualifier and the greater one for any other text.
C4_NumberVsText ==
    cmpDone =>
        \A i \in DOMAIN PartsA :
            MixedAt(PartsA, PartsB, i) =>
                LET textOnA == PartsA[i].kind = "String"
                    text    == IF textOnA THEN PartsA[i].value ELSE PartsB[i].value
                    ofText  == IF text \in KnownQualifiers THEN "Less" ELSE "Greater"
                IN  cmpAB = (IF textOnA THEN ofText ELSE Reverse(ofText))

\* a release word against a number, with tokens behind both
C4_Witness ==
    /\ cmpDone
    /\ Len(PartsA) = 2 /\ Len(PartsB) = 2
    /\ MixedAt(PartsA, PartsB, 1)
    /\ PartsA[1] = [kind |-> "String", value |-> W_ga]
    /\ PartsB[1] = [kind |-> "Number", value |-> <<"1">>]
    /\ cmpAB = "Greater"

\* C5: rule 4.  When one sequence is a proper prefix of the other (under
\* pairwise equality), the longer version is the lesser one if its first
\* extra token is a known-qualifier text and the greater one otherwise; and
\* two versions are Equal only if their sequences have the same length.
C5_PrefixRule ==
    cmpDone =>
        /\ (/\ Len(PartsA) > Len(PartsB)
            /\ CompareParts(SubSeq(PartsA, 1, Len(PartsB)), PartsB) = "Equal") =>
                LET extra == PartsA[Len(PartsB) + 1]
                    longer == IF extra.kind = "String" /\ extra.value \in KnownQualifiers
                              THEN "Less" ELSE "Greater"
                IN  cmpAB = longer /\ cmpBA = Reverse(longer)
        /\ cmpAB = "Equal" => Len(PartsA) = Len(PartsB)

C5_Witness ==
    /\ cmpDone
    /\ cmpA = V_1_0_alpha /\ cmpB = V_1_0
    /\ cmpAB = "Less" /\ cmpBA = "Greater"

----------------------------------------------------------------------------
(* Properties of the classifier                                             *)

\* a maximal run of alphanumerics of v that is M followed by one or more
\* digits and nothing else
HasMilestoneToken(v) ==
    \E i \in 1..Len(v) : \E j \in (i + 1)..Len(v) :
        /\ v[i] = "M"
        /\ \A k \in (i + 1)..j : v[k] \in RangeOf(Digits)
        /\ (i = 1 \/ ~IsAlphanumeric(v[i - 1]))
        /\ (j = Len(v) \/ ~IsAlphanumeric(v[j + 1]))

\* whether rule r of the ordered list matches the upper-cased string v
RuleMatches(r, v) ==
    IF r = 1 THEN Contains(v, P_SNAPSHOT)
    ELSE IF r = 2 THEN
        Contains(v, P_ALPHA) \/ Contains(v, <<"-","A",".">>) \/ EndsWith(v, <<"-","A">>)
    ELSE IF r = 3 THEN
        Contains(v, P_BETA) \/ Contains(v, <<"-","B",".">>) \/ EndsWith(v, <<"-","B">>)
    ELSE IF r = 4 THEN
        \E pat \in { <<"-","R","C">>, <<".","R","C">>, <<"-","C","R">>, <<".","C","R">> } :
            Contains(v, pat)
    ELSE IF r = 5 THEN
        (Contains(v, <<"-","M">>) \/ Contains(v, <<".","M">>)) /\ HasMilestoneToken(v)
    ELSE TRUE

TierOfRule == << "Snapshot", "Alpha", "Beta", "RC", "Milestone", "Stable" >>

FirstRule(v) == CHOOSE r \in 1..6 : RuleMatches(r, v) /\ \A q \in 1..(r - 1) : ~RuleMatches(q, v)

\* the tiers test_stability_classification expects, and Stable for 1.0.0-M
ExpectedTier(v) ==
    IF v \in {V_1_0_0, V_6_2_1, V_1_0_0_M} THEN "Stable"
    ELSE IF v = V_1_0_0_SNAPSHOT THEN "Snapshot"
    ELSE IF v \in {V_1_0_0_alpha, V_1_0_0_alpha_1} THEN "Alpha"
    ELSE IF v \in {V_1_0_0_beta, V_1_0_0_beta1} THEN "Beta"
    ELSE IF v \in {V_1_0_0_RC1, V_1_0_0_rc_1} THEN "RC"
    ELSE "Milestone"

\* C6: classify returns, for every string, the tier of the first rule of
\* the ordered list that the upper-cased string matches (Stable if none);
\* 1.0.0-SNAPSHOT is Snapshot, 1.0.0.M2 is Milestone and 1.0.0-M is Stable.
C6_ClassifyRules ==
    clsOut # "none" =>
        /\ clsOut = TierOfRule[FirstRule(ToUppercase(clsIn))]
        /\ clsIn \in ClsNamed => clsOut = ExpectedTier(clsIn)

\* a string that matches the ALPHA and the BETA pattern
C6_Witness ==
    /\ clsOut = "Alpha"
    /\ Contains(ToUppercase(clsIn), P_ALPHA)
    /\ Contains(ToUppercase(clsIn), P_BETA)

----------------------------------------------------------------------------
(* Properties of the metadata processor                                     *)

Tiers == { "Stable", "RC", "Beta", "Alpha", "Milestone" }

LatestOf(snapshot, tier) ==
    IF tier = "Stable" THEN snapshot.latest_stable
    ELSE IF tier = "RC" THEN snapshot.latest_rc
    ELSE IF tier = "Beta" THEN snapshot.latest_beta
    ELSE IF tier = "Alpha" THEN snapshot.latest_alpha
    ELSE snapshot.latest_milestone

Count(seq, x) == Cardinality({ i \in DOMAIN seq : seq[i] = x })

\* no element is strictly less than a later one
Descending(seq) ==
    \A i, j \in DOMAIN seq : i < j => CompareStr(seq[i], seq[j]) # "Less"

RawVersions == get_versions(metadata)

\* C7: all_versions is in descending comparator order (no version is
\* strictly less than one listed behind it), so latest_any is not older
\* than any listed version; the same holds for stable_versions.
C7_Descending ==
    processed # None =>
        LET snapshot == processed[1]
        IN  /\ Descending(snapshot.all_versions)
            /\ Descending(snapshot.stable_versions)
            /\ snapshot.latest_any # None =>
                   \A i \in DOMAIN snapshot.all_versions :
                       CompareStr(snapshot.latest_any[1], snapshot.all_versions[i]) # "Less"

\* C8: for each tier T of Stable, RC, Beta, Alpha, Milestone, latest_T is
\* absent iff no version of the list is classified T; otherwise it is a
\* version of the list classified T and no version classified T is strictly
\* greater.  stable_versions holds exactly the versions classified Stable.
\* The list of test_process_metadata gives 1.5.0, 2.0.0-RC1, 2.0.0-beta,
\* 2.0.0-alpha and three stable versions.
C8_LatestPerTier ==
    processed # None =>
        LET snapshot == processed[1]
            OfTier(t) == { RawVersions[i] : i \in { k \in DOMAIN RawVersions :
                                                      classify(RawVersions[k]) = t } }
        IN  /\ \A t \in Tiers :
                  /\ LatestOf(snapshot, t) = None <=> OfTier(t) = {}
                  /\ LatestOf(snapshot, t) # None =>
                        /\ LatestOf(snapshot, t)[1] \in OfTier(t)
                        /\ \A v \in OfTier(t) :
                               CompareStr(v, LatestOf(snapshot, t)[1]) # "Greater"
            /\ \A v \in RangeOf(RawVersions) \cup RangeOf(snapshot.stable_versions) :
                  Count(snapshot.stable_versions, v) =
                      (IF classify(v) = "Stable" THEN Count(RawVersions, v) ELSE 0)
            /\ RawVersions = TestVersions =>
                  /\ snapshot.latest_stable = Some(V_1_5_0)
                  /\ snapshot.latest_rc = Some(V_2_0_0_RC1)
                  /\ snapshot.latest_beta = Some(V_2_0_0_beta)
                  /\ snapshot.latest_alpha = Some(V_2_0_0_alpha)
                  /\ Len(snapshot.stable_versions) = 3

\* the versions of the list that classify calls Snapshot
SnapshotVersions == { v \in RangeOf(RawVersions) : classify(v) = "Snapshot" }

\* every version of the list is in all_versions, as often as in the list
AllVersionsKept(snapshot) ==
    /\ Len(snapshot.all_versions) = Len(RawVersions)
    /\ \A v \in RangeOf(RawVersions) : Count(snapshot.all_versions, v) = Count(RawVersions, v)

\* C9, as stated: a version classified Snapshot is in all_versions, in no
\* latest_* field, latest_any included, and not in stable_versions.
C9_SnapshotInNoLatestField ==
    processed # None =>
        LET snapshot == processed[1]
        IN  /\ AllVersionsKept(snapshot)
            /\ \A v \in SnapshotVersions :
                  /\ \A t \in Tiers : LatestOf(snapshot, t) # Some(v)
                  /\ snapshot.latest_any # Some(v)
                  /\ v \notin RangeOf(snapshot.stable_versions)

\* C9, amended: a version classified Snapshot is in all_versions, in none
\* of latest_stable, latest_rc, latest_beta, latest_alpha, latest_milestone
\* and not in stable_versions; latest_any is the first element of
\* all_versions whatever its tier (absent for an empty list).
C9_SnapshotInNoTierField ==
    processed # None =>
        LET snapshot == processed[1]
        IN  /\ AllVersionsKept(snapshot)
            /\ \A v \in SnapshotVersions :
                  /\ \A t \in Tiers : LatestOf(snapshot, t) # Some(v)
                  /\ v \notin RangeOf(snapshot.stable_versions)
            /\ snapshot.latest_any =
                  (IF snapshot.all_versions = <<>> THEN None
                   ELSE Some(snapshot.all_versions[1]))

\* a list whose greatest version is a SNAPSHOT, next to a stable version
C9_Witness ==
    /\ processed # None
    /\ processed[1].latest_any = Some(V_2_1_SNAPSHOT)
    /\ processed[1].latest_stable = Some(V_1_0_1)
    /\ processed[1].all_versions[1] = V_2_1_SNAPSHOT

----------------------------------------------------------------------------
(* Properties of the cached client                                          *)

SameGroupAndArtifact(c, d) == c.group_id = d.group_id /\ c.artifact_id = d.artifact_id

\* the live entries that a successful get_metadata for a coordinate with
\* the group and artifact of c installed
LiveEntriesFor(c) ==
    { k \in DOMAIN cache :
        /\ cache[k] # None
        /\ IsLive(cache[k][1])
        /\ SameGroupAndArtifact(cache[k][1].coordinate, c) }

\* caller p enters get_metadata(c) in this step
Enters(p, c) ==
    /\ calls[p].pc \in {"idle", "returned"}
    /\ calls'[p] # calls[p]
    /\ calls'[p].coordinate = Some(c)

\* C10: a get_metadata call for a coordinate whose group and artifact have
\* an entry that a successful call installed and that has neither expired
\* nor been evicted performs no fetch and returns the snapshot of that
\* entry, whatever the version field of the coordinate; the cache and the
\* snapshots are left as they are.
C10_HitPerformsNoFetch ==
    [][ \A p \in Callers, c \in Coordinates :
            (Enters(p, c) /\ LiveEntriesFor(c) # {}) =>
                /\ calls'[p].pc = "returned"
                /\ \A k \in LiveEntriesFor(c) : calls'[p].result = Ok(cache[k][1].value)
                /\ fetches' = fetches
                /\ cache' = cache
                /\ heap' = heap ]_vars

\* two sequential lookups by one caller, the second for the same group and
\* artifact with another version field and half a time-to-live later: one
\* fetch in all, and the second returns the first one's snapshot
C10_Witness ==
    /\ calls["c1"].pc = "returned"
    /\ ~calls["c1"].fetched
    /\ calls["c1"].result = Ok(1)
    /\ calls["c2"].pc = "idle"
    /\ TotalFetches = 1
    /\ now = TickHours
    /\ \E k \in DOMAIN cache :
          /\ cache[k] # None
          /\ cache[k][1].value = 1
          /\ cache[k][1].inserted_at = 0
          /\ SameGroupAndArtifact(cache[k][1].coordinate, calls["c1"].coordinate[1])
          /\ cache[k][1].coordinate.version # calls["c1"].coordinate[1].version

----------------------------------------------------------------------------
(* Concurrent misses, expiry and failed fetches of get_metadata             *)

\* the callers that have missed on key and not yet returned
InFlight(key) ==
    { p \in Callers :
        /\ calls[p].pc \in {"fetching", "inserting"}
        /\ to_ga(calls[p].coordinate[1]) = key }

\* caller p misses in this step
Misses(p) == calls[p].pc \in {"idle", "returned"} /\ calls'[p].pc = "fetching"

\* caller p's fetch completes and its document is processed in this step
Processes(p) == calls[p].pc = "fetching" /\ calls'[p].pc = "inserting"

\* caller p installs and returns in this step
Installs(p) == calls[p].pc = "inserting" /\ calls'[p].pc = "returned"

\* caller p's fetch fails in this step
FetchFails(p) == calls[p].pc = "fetching" /\ calls'[p].pc = "returned"

\* C11: misses for one key are not single-flighted.  A call that misses
\* issues a fetch of its own even while other calls for the key are in
\* flight, so the fetches issued for a key are at least the calls in flight
\* for it; each call processes its own document into a snapshot of its own,
\* returns that snapshot, and its insert replaces whatever the key held, so
\* the key holds the snapshot of the insert that ran last.
C11_NotSingleFlighted ==
    /\ [](\A key \in CacheKeys : Cardinality(InFlight(key)) <= fetches[key])
    /\ [][ \A p \in Callers :
            /\ Misses(p) =>
                  LET key == to_ga(calls'[p].coordinate[1])
                  IN  /\ fetches'[key] = fetches[key] + 1
                      /\ cache' = cache
            /\ Processes(p) =>
                  /\ Len(heap') = Len(heap) + 1
                  /\ calls'[p].processed = Some(Len(heap'))
                  /\ \A q \in Callers \ {p} : calls[q].processed # calls'[p].processed
                  /\ fetches' = fetches
            /\ Installs(p) =>
                  LET key == to_ga(calls[p].coordinate[1])
                  IN  /\ calls'[p].result = Ok(calls[p].processed[1])
                      /\ cache'[key] # None
                      /\ cache'[key][1].value = calls[p].processed[1]
                      /\ \A k \in CacheKeys \ {key} : cache'[k] = cache[k] ]_vars

\* both callers missed on one key at the same time: two fetches, two
\* snapshots; c1 installed and returned its own, and c2, still to install,
\* holds another that will replace it
C11_Witness ==
    /\ calls["c1"].pc = "returned" /\ calls["c1"].fetched
    /\ calls["c2"].pc = "inserting"
    /\ calls["c1"].coordinate # None /\ calls["c2"].coordinate # None
    /\ LET key == to_ga(calls["c1"].coordinate[1])
       IN  /\ to_ga(calls["c2"].coordinate[1]) = key
           /\ fetches[key] = 2
           /\ Len(heap) = 2
           /\ calls["c1"].result = Ok(calls["c1"].processed[1])
           /\ calls["c2"].processed # calls["c1"].processed
           /\ cache[key] # None
           /\ cache[key][1].value = calls["c1"].processed[1]
           /\ now = 0 /\ others = 0

\* the entry of key has reached its time-to-live
Expired(key) ==
    /\ cache[key] # None
    /\ now >= cache[key][1].inserted_at + CACHE_TTL_HOURS

\* C12: expiry is counted from the insert alone.  A lookup at or after
\* inserted_at + 24 hours never returns the entry: it is a miss that
\* fetches again; a hit leaves the entry and its insert time as they are;
\* and the insert that follows a miss stamps the new snapshot with the
\* current time.
C12_ExpiryIndependentOfAccess ==
    [][ \A p \in Callers :
          /\ \A c \in Coordinates :
                (Enters(p, c) /\ Expired(to_ga(c))) =>
                    /\ calls'[p].pc = "fetching"
                    /\ fetches'[to_ga(c)] = fetches[to_ga(c)] + 1
          /\ \A c \in Coordinates :
                (Enters(p, c) /\ calls'[p].pc = "returned") =>
                    /\ cache' = cache
                    /\ ~Expired(to_ga(c))
          /\ Installs(p) =>
                LET key == to_ga(calls[p].coordinate[1])
                IN  /\ cache'[key][1].inserted_at = now
                    /\ cache[key] # None => cache'[key][1].value # cache[key][1].value ]_vars

\* an entry installed at time 0 served a hit half a time-to-live later and
\* is still held, and a lookup at time 24 missed and is fetching
C12_Witness ==
    \E key \in CacheKeys :
        /\ cache[key] # None
        /\ cache[key][1].inserted_at = 0
        /\ now = CACHE_TTL_HOURS
        /\ calls["c1"].pc = "returned" /\ ~calls["c1"].fetched
        /\ calls["c1"].result = Ok(cache[key][1].value)
        /\ calls["c2"].pc = "fetching"
        /\ to_ga(calls["c2"].coordinate[1]) = key
        /\ fetches[key] = 2

\* C15: a failed fetch ends the call.  The call returns the error after
\* the one fetch its miss issued, without another fetch, and leaves the
\* cache and the snapshots as they are; a later call that finds no live
\* entry for the key misses and fetches again.
C15_FailedFetchInstallsNothing ==
    [][ \A p \in Callers :
          /\ FetchFails(p) =>
                /\ calls'[p].result = Err
                /\ cache' = cache
                /\ heap' = heap
                /\ fetches' = fetches
                /\ others' = others
          /\ \A c \in Coordinates :
                (Enters(p, c) /\ cache[to_ga(c)] = None) =>
                    /\ calls'[p].pc = "fetching"
                    /\ fetches'[to_ga(c)] = fetches[to_ga(c)] + 1 ]_vars

\* c1's fetch failed and nothing is held for the key; c2 has missed on it in
\* turn and is fetching: two fetches for the key and no snapshot
C15_Witness ==
    /\ calls["c1"].pc = "returned" /\ calls["c1"].result = Err
    /\ calls["c1"].fetched
    /\ LET key == to_ga(calls["c1"].coordinate[1])
       IN  /\ cache[key] = None
           /\ calls["c2"].pc = "fetching"
           /\ to_ga(calls["c2"].coordinate[1]) = key
           /\ fetches[key] = 2
           /\ heap = <<>>

----------------------------------------------------------------------------
(* MavenCoordinate::parse                                                   *)

\* the colon-separated segments of the trimmed input, each trimmed
TrimmedSegments(raw) ==
    LET segments == SplitOn(Trim(raw), ":")
    IN  [i \in 1..Len(segments) |-> Trim(segments[i])]

\* C19: with 2 to 5 segments of which the first two are non-empty once
\* trimmed, parse succeeds with group = segment 0 and artifact = segment 1,
\* both trimmed; 2 segments give no version; 3, 4 or 5 segments give the
\* trimmed last segment as the version, or no version when that is empty,
\* whatever the segments in between hold.
C19_ParseSegments ==
    coordOut # None =>
        LET segs == TrimmedSegments(coordIn)
            n    == Len(segs)
            r    == coordOut[1]
        IN  (n \in 2..5 /\ segs[1] # <<>> /\ segs[2] # <<>>) =>
                /\ r.ok
                /\ r.value.group_id = segs[1]
                /\ r.value.artifact_id = segs[2]
                /\ n = 2 => r.value.version = None
                /\ n \in 3..5 =>
                      r.value.version = (IF segs[n] = <<>> THEN None ELSE Some(segs[n]))

\* "g:g:g:: 1.0 " without its padding: five segments, the two in the middle
\* a word and an empty one, parsed to g:g with version 1.0
C19_Witness ==
    /\ coordOut # None
    /\ coordIn = JoinOn(<<S_g, S_g, S_g, <<>>, S_padded_1_0>>, ":")
    /\ coordOut[1] = CoordOk([group_id |-> S_g, artifact_id |-> S_g, version |-> Some(V_1_0)])

\* C20: with 2 to 5 segments, parse fails with EmptyGroupId when segment 0
\* is empty once trimmed, and with EmptyArtifactId when segment 0 is not
\* but segment 1 is; no coordinate is produced.
C20_EmptyIdErrors ==
    coordOut # None =>
        LET segs == TrimmedSegments(coordIn)
            n    == Len(segs)
            r    == coordOut[1]
        IN  n \in 2..5 =>
                /\ segs[1] = <<>> => (~r.ok /\ r.value.kind = "EmptyGroupId")
                /\ (segs[1] # <<>> /\ segs[2] = <<>>) =>
                      (~r.ok /\ r.value.kind = "EmptyArtifactId")

\* " : :g": group and artifact both blank, reported as an empty group
C20_Witness ==
    /\ coordOut # None
    /\ coordIn = JoinOn(<<S_blank, S_blank, S_g>>, ":")
    /\ coordOut[1] = CoordErr("EmptyGroupId", <<>>)

----------------------------------------------------------------------------
(* UpdateType::between                                                      *)

\* the numbers written by the maximal digit runs of s, left to right, each
\* as its decimal digits without leading zeros
NumbersOf(s) ==
    LET runs == DigitRuns(s)
    IN  [i \in 1..Len(runs) |-> StripLeadingZeros(runs[i])]

NumberAt(numbers, i) == IF i <= Len(numbers) THEN numbers[i] ELSE <<"0">>

\* the rule on the digit runs of the two strings
ReferenceUpdateType(current, target) ==
    LET c == NumbersOf(current)
        t == NumbersOf(target)
    IN  IF c = <<>> \/ t = <<>> THEN "Other"
        ELSE IF c[1] # t[1] THEN "Major"
        ELSE IF NumberAt(c, 2) # NumberAt(t, 2) THEN "Minor"
        ELSE "Patch"

ContainsDigit(s) == \E i \in DOMAIN s : IsAsciiDigit(s[i])

\* C16: between(current, target) is the rule applied to the maximal digit
\* runs of the two strings: Other if either has none, else Major if the
\* first numbers differ, else Minor if the second numbers (0 when absent)
\* differ, else Patch; so between(x, x) is Patch for every x with a digit.
C16_BetweenReference ==
    updOut # "none" =>
        /\ updOut = ReferenceUpdateType(updCurrent, updTarget)
        /\ (updCurrent = updTarget /\ ContainsDigit(updCurrent)) => updOut = "Patch"

----------------------------------------------------------------------------
(* Age tier and score                                                       *)

\* the entries of stable_versions that compare strictly greater than v
NewerStable(snapshot, v) ==
    { i \in DOMAIN snapshot.stable_versions :
        CompareStr(snapshot.stable_versions[i], v) = "Greater" }

FixedScore(age) ==
    CASE age = "Current"  -> 100
      [] age = "Fresh"    -> 90
      [] age = "Aging"    -> 70
      [] age = "Stale"    -> 50
      [] age = "Outdated" -> 40

\* C17: with n the number of stable_versions entries strictly greater than
\* the current version, the result is Current/100 for n = 0, Fresh/90 for
\* 1..2, Aging/70 for 3..5, and for n > 5 Outdated/40 when
\* between(current, latest_stable) is Major and Stale/50 otherwise; the
\* score is the fixed score of the tier.
C17_AgeTierAndScore ==
    healthOut # None =>
        LET n   == Cardinality(NewerStable(healthMetadata[1], healthCurrent))
            r   == healthOut[1]
            age == r.age_classification[1]
        IN  /\ r.error = None /\ r.age_classification # None
            /\ n = 0 => age = "Current"
            /\ n \in 1..2 => age = "Fresh"
            /\ n \in 3..5 => age = "Aging"
            /\ n > 5 =>
                  age = (IF between(healthCurrent, healthMetadata[1].latest_stable[1]) = "Major"
                         THEN "Outdated" ELSE "Stale")
            /\ r.health_score = FixedScore(age)

\* 1.0.0 against six newer stable versions up to 2.0.0, an RC beside them:
\* Outdated, 40
C17_Witness ==
    /\ healthOut # None
    /\ healthCurrent = V_1_0_0
    /\ Len(healthMetadata[1].all_versions) = 7
    /\ Cardinality(NewerStable(healthMetadata[1], healthCurrent)) = 6
    /\ healthMetadata[1].latest_stable = Some(V_2_0_0)
    /\ healthOut[1].age_classification = Some("Outdated")
    /\ healthOut[1].health_score = 40

----------------------------------------------------------------------------
(* Aggregate health                                                         *)

\* the items that carry no error
Scored(results) == { i \in DOMAIN results : results[i].error = None }

RECURSIVE ScoreSum(_, _)
ScoreSum(results, S) ==
    IF S = {} THEN 0
    ELSE LET i == CHOOSE j \in S : TRUE
         IN  results[i].health_score + ScoreSum(results, S \ {i})

\* C18: health_score is the sum of the scores of the items without an error
\* divided by their number, and 0 when there is none; the errored items are
\* counted in summary.errors and nowhere else; the grade is A from 90, B
\* from 80, C from 70, D from 60 and F below.
C18_AggregateHealth ==
    aggOut # None =>
        LET r     == aggOut[1]
            S     == Scored(aggResults)
            k     == Cardinality(S)
            sum   == ScoreSum(aggResults, S)
            score == r.health_score
        IN  /\ r.summary.errors = Len(aggResults) - k
            /\ r.summary.current + r.summary.fresh + r.summary.aging
                  + r.summary.stale + r.summary.outdated = k
            /\ k = 0 => score.num = 0
            /\ k > 0 => score.num * k = sum * score.den
            /\ r.health_grade = "A" <=> (k > 0 /\ sum >= 90 * k)
            /\ r.health_grade = "B" <=> (k > 0 /\ 80 * k <= sum /\ sum < 90 * k)
            /\ r.health_grade = "C" <=> (k > 0 /\ 70 * k <= sum /\ sum < 80 * k)
            /\ r.health_grade = "D" <=> (k > 0 /\ 60 * k <= sum /\ sum < 70 * k)
            /\ r.health_grade = "F" <=> (k = 0 \/ sum < 60 * k)

\* an Aging item, an errored item and a Stale item: mean (70 + 50) / 2 = 60
\* over the two scored ones, grade D, one error
C18_Witness ==
    /\ aggOut # None
    /\ Len(aggResults) = 3
    /\ aggResults[1].age_classification = Some("Aging")
    /\ aggResults[2].error # None
    /\ aggResults[3].age_classification = Some("Stale")
    /\ aggOut[1].health_score = Ratio(120, 2)
    /\ aggOut[1].health_grade = "D"
    /\ aggOut[1].summary.errors = 1

----------------------------------------------------------------------------
(* The batch tools                                                          *)

\* the entries of the response
Entries == batchResponse[1].content.dependencies

ParsedDep(i) == MavenCoordinateParse(batchDeps[i])

\* the dependency and current version a result for the i-th input names
NamesInput(result, i) ==
    IF ~ParsedDep(i).ok
    THEN result.dependency = batchDeps[i] /\ result.current_version = None
    ELSE /\ result.dependency = to_ga(ParsedDep(i).value)
         /\ result.current_version = ParsedDep(i).value.version

\* C13: the response of a batch of n inputs has n entries, and whatever
\* order the futures completed in, its i-th entry is the result the i-th
\* future computed, which is the one for the i-th input, duplicates
\* included.
C13_BatchPreservesOrder ==
    batchResponse # None =>
        /\ Len(Entries) = Len(batchDeps)
        /\ \A i \in DOMAIN batchDeps :
              /\ Entries[i] = batchSlots[i].output[1]
              /\ NamesInput(Entries[i], i)
              /\ \A j \in DOMAIN batchDeps : batchDeps[j] = batchDeps[i] =>
                    Entries[j].dependency = Entries[i].dependency

\* three inputs, the second malformed; the futures completed in the order
\* 2, 3, 1 and the entries are in the order 1, 2, 3
C13_Witness ==
    /\ batchResponse # None
    /\ batchDeps = <<D_org_a_1_0, D_invalid, D_org_b_1_0>>
    /\ batchSlots[1].rank = 3 /\ batchSlots[2].rank = 1 /\ batchSlots[3].rank = 2
    /\ Entries[1].dependency = to_ga(C_org_a)
    /\ Entries[2].dependency = D_invalid
    /\ Entries[3].dependency = G_org \o <<":">> \o A_b
    /\ Entries[1].error = None /\ Entries[2].error # None

\* get_metadata returned Ok to the i-th future
GotSnapshot(i) == calls[i].result # None /\ calls[i].result[1].ok

SnapshotOfItem(i) == heap[calls[i].result[1].value]

\* the latest version check_single_dependency compares against
ApplicableLatest(i) ==
    IF batchStableOnly THEN SnapshotOfItem(i).latest_stable
    ELSE SnapshotOfItem(i).latest_any

MalformedOrMissing(i) ==
    \/ ~ParsedDep(i).ok
    \/ batchKind = "health" /\ ParsedDep(i).value.version = None

FetchFailed(i) == calls[i].result = Err

\* the entry the i-th future's own input and own get_metadata outcome give
OwnEntry(i) ==
    IF EarlyResult(batchKind, batchDeps[i]) # None
    THEN EarlyResult(batchKind, batchDeps[i])[1]
    ELSE LateResult(batchKind, ParsedDep(i).value, batchStableOnly,
                    calls[i].result[1], heap)

\* C14: the batch returns a success response; entry i carries an error iff
\* item i's own processing failed: a malformed coordinate, a failed fetch
\* or parse, no latest version of the kind check_multiple_dependencies was
\* asked for, or for project health a coordinate without a version (the
\* health analysis asks for no latest version: without a stable version it
\* scores the item Current); and the entry of an item is what its own input
\* and its own get_metadata outcome give, whatever happened to the others.
C14_ErrorIffOwnFailure ==
    batchResponse # None =>
        /\ ~batchResponse[1].is_error
        /\ \A i \in DOMAIN batchDeps :
              /\ Entries[i].error # None <=>
                    \/ MalformedOrMissing(i)
                    \/ FetchFailed(i)
                    \/ GotSnapshot(i) /\ batchKind = "check" /\ ApplicableLatest(i) = None
              /\ Entries[i] = OwnEntry(i)

\* the first item's fetch failed, the second is malformed, and the third,
\* for the coordinate of the first, fetched and is reported outdated
C14_Witness ==
    /\ batchResponse # None
    /\ batchKind = "check"
    /\ batchDeps = <<D_org_a_1_0, D_invalid, D_org_a_1_0>>
    /\ Entries[1].error = Some(E_fetch_failed)
    /\ Entries[2].error = Some("InvalidFormat")
    /\ Entries[3].error = None
    /\ Entries[3].is_outdated
    /\ Entries[3].latest_version = Some(V_1_0_1)
    /\ batchResponse[1].content.error_count = 2

\* compare_versions once get_metadata has returned Ok: the error for a
\* missing target version, or the VersionComparisonResponse
VersionComparison(coordinate, current_version, stable_only, snapshot) ==
    LET target_version == IF stable_only THEN snapshot.latest_stable
                          ELSE snapshot.latest_any
    IN  IF target_version = None THEN [ok |-> FALSE, value |-> E_no_versions]
        ELSE LET target         == target_version[1]
                 current_parsed == MavenVersionParse(current_version)
                 target_parsed  == MavenVersionParse(target)
                 is_outdated    == compare(current_parsed, target_parsed) = "Less"
                 update_type    == IF is_outdated
                                   THEN Some(between(current_version, target))
                                   ELSE None
                 versions_behind ==
                     Cardinality({ i \in DOMAIN snapshot.all_versions :
                         LET parsed == MavenVersionParse(snapshot.all_versions[i])
                         IN  /\ compare(parsed, current_parsed) = "Greater"
                             /\ compare(parsed, target_parsed) # "Greater" })
             IN  [ok |-> TRUE,
                  value |-> [dependency        |-> to_ga(coordinate),
                             current_version   |-> current_version,
                             current_stability |-> classify(current_version),
                             latest_version    |-> target,
                             latest_stability  |-> classify(target),
                             is_outdated       |-> is_outdated,
                             update_type       |-> update_type,
                             versions_behind   |-> versions_behind,
                             recommendation    |->
                                 IF is_outdated
                                 THEN Some([kind |-> "consider upgrading",
                                            update |-> update_type[1],
                                            count |-> versions_behind])
                                 ELSE Some([kind |-> "latest version"])]]

\* The tool compare_versions, from the return of get_metadata on
CompareVersions ==
    /\ cvOut = None
    /\ cvMetadata # None
    /\ cvOut' = Some(VersionComparison(
                     [group_id |-> G_org, artifact_id |-> A_a,
                      version |-> Some(cvCurrent)],
                     cvCurrent, cvStableOnly, cvMetadata[1]))
    /\ UNCHANGED <<cvCurrent, cvMetadata, cvStableOnly>>

\* Inputs of the comparison: a current version, the snapshot of a document
\* of up to MaxListed versions of the pool, and the flag.
MaxListed == 2

CvCurrents == VersionPool \cup { V_1_0, V_1_0_rc }

InitCompareVersions ==
    /\ cvCurrent \in CvCurrents
    /\ cvStableOnly \in BOOLEAN
    /\ \E versions \in SeqsUpTo(VersionPool, MaxListed) :
          \E snapshot \in process_metadata(MetadataWith(versions, None)) :
              cvMetadata = Some(snapshot)
    /\ cvOut = None
    /\ CoordIdle /\ UpdIdle /\ HealthIdle /\ AggIdle /\ BatchIdle
    /\ CmpIdle /\ ClsIdle /\ ProcIdle /\ ClientInit /\ TokIdle
NextCompareVersions ==
    CompareVersions /\ UNCHANGED <<cmpVars, clsVars, procVars, clientVars, tokVars,
                                   coordVars, updVars, healthVars, aggVars, batchVars>>
SpecCompareVersions == InitCompareVersions /\ [][NextCompareVersions]_vars

\* MavenVersion::parse_parts applied to a string
Tokenize ==
    /\ tokOut = None
    /\ tokOut' = Some(parse_parts(tokIn))
    /\ UNCHANGED tokIn

\* Inputs of the tokenizer: every string of up to MaxTokChars characters
\* over digits, letters of both cases, separators and a sign, and the
\* strings "alpha1" and "1RC2".
MaxTokChars == 4

TokChars == {"0", "1", "a", "R", ".", "-", "_", "+"}

T_alpha1 == W_alpha \o <<"1">>
T_1RC2   == <<"1">> \o W_RC \o <<"2">>

InitTokenize ==
    /\ \/ tokIn \in {T_alpha1, T_1RC2}
       \/ \E n \in 0..MaxTokChars : tokIn \in [1..n -> TokChars]
    /\ tokOut = None
    /\ CoordIdle /\ UpdIdle /\ HealthIdle /\ AggIdle /\ BatchIdle
    /\ CmpIdle /\ ClsIdle /\ ProcIdle /\ ClientInit /\ CvIdle
NextTokenize ==
    Tokenize /\ UNCHANGED <<cmpVars, clsVars, procVars, clientVars, cvVars,
                            coordVars, updVars, healthVars, aggVars, batchVars>>
SpecTokenize == InitTokenize /\ [][NextTokenize]_vars

----------------------------------------------------------------------------
(* MavenCoordinate::parse: the rejected and the accepted strings            *)

\* the number of colon-separated segments of the trimmed input
SegmentCount(raw) == Len(SplitOn(Trim(raw), ":"))

\* C21: an input with one segment or more than five (the empty string
\* included) fails with InvalidFormat, and the string the error carries is
\* the input exactly as the caller passed it.
C21_InvalidFormatCarriesOriginal ==
    coordOut # None =>
        (SegmentCount(coordIn) \notin 2..5 =>
            coordOut[1] = CoordErr("InvalidFormat", coordIn))

IsPathSeparator(c) == c = "/" \/ c = "\\"

HasPathSeparator(s) == \E i \in DOMAIN s : IsPathSeparator(s[i])

\* C22: every accepted coordinate has a non-empty group_id and a non-empty
\* artifact_id, and neither identifier contains '/' or '\'.
C22_IdentifiersWellFormed ==
    (coordOut # None /\ coordOut[1].ok) =>
        LET c == coordOut[1].value
        IN  /\ c.group_id # <<>> /\ c.artifact_id # <<>>
            /\ ~HasPathSeparator(c.group_id)
            /\ ~HasPathSeparator(c.artifact_id)

----------------------------------------------------------------------------
(* latest_stable and stable_versions                                        *)

\* C28: in every snapshot latest_stable is absent exactly when
\* stable_versions is empty and is otherwise its first element; so whenever
\* more than five stable versions are newer than the current one,
\* latest_stable is present and the age rule never takes its branch for
\* an absent latest_stable.
C28_LatestStableIsFirstStable ==
    healthMetadata # None =>
        LET snapshot == healthMetadata[1]
        IN  /\ snapshot.latest_stable = None <=> snapshot.stable_versions = <<>>
            /\ snapshot.stable_versions # <<>> =>
                  snapshot.latest_stable = Some(snapshot.stable_versions[1])
            /\ stable_versions_since(healthCurrent, snapshot) > 5 =>
                  snapshot.latest_stable # None

\* seven stable versions, all newer than 1.0.0: the seven-way tier is
\* decided against latest_stable = stable_versions[0] = 2.0.0
C28_Witness ==
    /\ healthOut # None
    /\ healthCurrent = V_1_0_0
    /\ Len(healthMetadata[1].stable_versions) = 7
    /\ stable_versions_since(healthCurrent, healthMetadata[1]) = 7
    /\ healthMetadata[1].stable_versions[1] = V_2_0_0
    /\ healthMetadata[1].latest_stable = Some(V_2_0_0)

----------------------------------------------------------------------------
(* The snapshots get_metadata hands out                                     *)

\* the snapshots callers hold: the Arcs get_metadata returned to them
Held == { calls[p].result[1].value :
            p \in { q \in Callers : calls[q].result # None /\ calls[q].result[1].ok } }

\* C25: the contents of a snapshot get_metadata returned never change: no
\* step alters an allocated snapshot, and a step that changes the cache
\* entry of a key (a later insert) installs an object that is neither the
\* one the entry held nor one any caller holds, while eviction and expiry
\* only remove the entry.
C25_SnapshotsImmutable ==
    [][ /\ \A id \in DOMAIN heap : id \in DOMAIN heap' /\ heap'[id] = heap[id]
        /\ \A k \in CacheKeys :
              (cache'[k] # cache[k] /\ cache'[k] # None) =>
                  /\ cache'[k][1].value \notin Held
                  /\ cache[k] # None => cache'[k][1].value # cache[k][1].value
      ]_vars

\* c1 still holds the two-version snapshot it was given, while the entry of
\* its key, re-fetched after the time-to-live, is another object listing
\* three versions
C25_Witness ==
    /\ calls["c1"].result = Ok(1)
    /\ calls["c1"].coordinate # None
    /\ cache[to_ga(calls["c1"].coordinate[1])] # None
    /\ cache[to_ga(calls["c1"].coordinate[1])][1].value = 2
    /\ Len(heap[1].all_versions) = 2
    /\ Len(heap[2].all_versions) = 3

----------------------------------------------------------------------------
(* The counters of the batch responses                                      *)

\* the entries of the response that carry an error
Errored == { i \in DOMAIN Entries : Entries[i].error # None }

\* C26: in the response of check_multiple_dependencies error_count is the
\* number of entries with an error, outdated_count + up_to_date_count +
\* error_count = total_checked = the number of inputs, and the three
\* update counters add up to at most outdated_count; in the response of
\* analyze_project_health summary.errors is the number of entries with an
\* error and the six counters of the summary add up to total_dependencies.
C26_CountersAddUp ==
    batchResponse # None =>
        LET r == batchResponse[1].content
        IN  IF batchKind = "check"
            THEN /\ r.error_count = Cardinality(Errored)
                 /\ r.total_checked = Len(batchDeps)
                 /\ r.outdated_count + r.up_to_date_count + r.error_count = r.total_checked
                 /\ r.summary.major_updates + r.summary.minor_updates
                       + r.summary.patch_updates <= r.outdated_count
            ELSE /\ r.summary.errors = Cardinality(Errored)
                 /\ r.total_dependencies = Len(batchDeps)
                 /\ r.summary.current + r.summary.fresh + r.summary.aging
                       + r.summary.stale + r.summary.outdated + r.summary.errors
                       = r.total_dependencies

\* three inputs checked against any version: a patch behind, malformed, a
\* major behind
C26_Witness ==
    /\ batchResponse # None
    /\ batchKind = "check" /\ ~batchStableOnly
    /\ batchDeps = <<D_org_a_1_0, D_invalid, D_org_b_1_0>>
    /\ batchResponse[1].content.total_checked = 3
    /\ batchResponse[1].content.error_count = 1
    /\ batchResponse[1].content.outdated_count = 2
    /\ batchResponse[1].content.up_to_date_count = 0
    /\ batchResponse[1].content.summary.major_updates = 1
    /\ batchResponse[1].content.summary.patch_updates = 1

----------------------------------------------------------------------------
(* The fields of a DependencyCheckResult                                    *)

\* the results the futures of check_multiple_dependencies have returned
Returned == { i \in DOMAIN batchSlots : batchSlots[i].output # None }

\* C30: in every DependencyCheckResult update_type is present iff
\* is_outdated; is_outdated holds iff the current and the latest version
\* are both present and the current one compares less than the latest; an
\* entry with an error is not outdated and has neither update_type nor
\* latest_version; an item without a version is never outdated, and has no
\* error when a latest version exists.
C30_CheckResultFields ==
    batchKind = "check" =>
        \A i \in Returned :
            LET r == batchSlots[i].output[1]
            IN  /\ r.update_type # None <=> r.is_outdated
                /\ r.is_outdated <=>
                      /\ r.current_version # None
                      /\ r.latest_version # None
                      /\ CompareStr(r.current_version[1], r.latest_version[1]) = "Less"
                /\ r.error # None =>
                      (~r.is_outdated /\ r.update_type = None /\ r.latest_version = None)
                /\ (ParsedDep(i).ok /\ ParsedDep(i).value.version = None) =>
                      /\ ~r.is_outdated
                      /\ (GotSnapshot(i) /\ ApplicableLatest(i) # None) =>
                            (r.error = None /\ r.latest_version = ApplicableLatest(i))

\* org:a:1.0.1 is at the latest version: both versions present, not
\* outdated, no update type; org:a has no version: not outdated, no error
C30_Witness ==
    /\ batchKind = "check"
    /\ batchDeps = <<D_org_a_1_0_1, D_org_a>>
    /\ Returned = {1, 2}
    /\ batchSlots[1].output[1].current_version = Some(V_1_0_1)
    /\ batchSlots[1].output[1].latest_version = Some(V_1_0_1)
    /\ ~batchSlots[1].output[1].is_outdated
    /\ batchSlots[1].output[1].update_type = None
    /\ batchSlots[2].output[1].current_version = None
    /\ batchSlots[2].output[1].latest_version = Some(V_1_0_1)
    /\ batchSlots[2].output[1].error = None

----------------------------------------------------------------------------
(* The join of a batch                                                      *)

AllDone == \A i \in DOMAIN batchSlots : batchSlots[i].pc = "done"

\* the i-th future can run: return early, or take its step of get_metadata
CanRun(i) ==
    \/ ENABLED ItemReturnsEarly(i)
    \/ ENABLED ItemLooksUp(i)
    \/ ENABLED ItemFetchReturns(i)
    \/ ENABLED ItemInserts(i)

\* C23: a batch produces its response exactly once and only after every
\* item has completed: the response appears in a step taken with all the
\* futures done and never changes afterwards; an item that has not
\* completed can always take its next step, whatever state the other
\* items are in; and when every fetch returns the response is eventually
\* produced.
C23_JoinAfterAllItems ==
    /\ [](batchResponse # None => AllDone)
    /\ [][ /\ (batchResponse = None /\ batchResponse' # None) => AllDone
           /\ batchResponse # None => batchResponse' = batchResponse ]_vars
    /\ [](\A i \in ItemIds :
            (i \in DOMAIN batchSlots /\ batchSlots[i].pc # "done") => CanRun(i))
    /\ <>(batchResponse # None)

\* a health batch of three whose futures completed last to first, all done
\* before the response
C23_Witness ==
    /\ batchResponse # None
    /\ batchKind = "health"
    /\ batchDeps = <<D_org_a_1_0, D_invalid, D_org_b_1_0>>
    /\ AllDone
    /\ batchSlots[3].rank = 1 /\ batchSlots[2].rank = 2 /\ batchSlots[1].rank = 3
    /\ calls[1].fetched /\ calls[3].fetched
    /\ batchResponse[1].content.total_dependencies = 3

----------------------------------------------------------------------------
(* The tokens of a version string                                           *)

CharClass(c) ==
    IF IsAsciiDigit(c) THEN "digit" ELSE IF IsSeparator(c) THEN "separator" ELSE "text"

\* the last position of the maximal run of one class that starts at i
RunEnd(s, i) ==
    CHOOSE j \in i..Len(s) :
        /\ \A k \in i..j : CharClass(s[k]) = CharClass(s[i])
        /\ j = Len(s) \/ CharClass(s[j + 1]) # CharClass(s[i])

\* the maximal runs of digits and of text of s from position i on, in order
RECURSIVE RunsFrom(_, _)
RunsFrom(s, i) ==
    IF i > Len(s) THEN <<>>
    ELSE IF CharClass(s[i]) = "separator" THEN RunsFrom(s, i + 1)
    ELSE <<SubSeq(s, i, RunEnd(s, i))>> \o RunsFrom(s, RunEnd(s, i) + 1)

\* C24: parse_parts yields one Number token per maximal run of ASCII
\* digits and one lower-cased Text token per maximal run of characters
\* that are neither digits nor separators, in the order of the runs; no
\* token is empty or holds a separator, and separators, wherever and
\* however many, yield no token.
C24_TokensAreMaximalRuns ==
    tokOut # None =>
        LET tokens == tokOut[1]
            runs   == RunsFrom(tokIn, 1)
        IN  /\ Len(tokens) = Len(runs)
            /\ \A k \in DOMAIN runs :
                  IF IsAsciiDigit(runs[k][1])
                  THEN /\ tokens[k].kind = "Number"
                       /\ tokens[k].value = StripLeadingZeros(runs[k])
                  ELSE /\ tokens[k].kind = "String"
                       /\ tokens[k].value = ToLowercase(runs[k])
            /\ \A k \in DOMAIN tokens :
                  /\ tokens[k].value # <<>>
                  /\ \A n \in DOMAIN tokens[k].value : ~IsSeparator(tokens[k].value[n])

\* "1RC2" is the number 1, the text rc and the number 2
C24_Witness ==
    /\ tokIn = T_1RC2
    /\ tokOut = Some(<<[kind |-> "Number", value |-> <<"1">>],
                       [kind |-> "String", value |-> <<"r", "c">>],
                       [kind |-> "Number", value |-> <<"2">>]>>)

----------------------------------------------------------------------------
(* The two age classifications                                              *)

\* C29: for every current version and snapshot, the age_classification of
\* analyze_dependency_age is the one analyze_single_health gives.
C29_AgeRulesAgree ==
    (ageOut # None /\ healthOut # None) =>
        /\ healthOut[1].age_classification = Some(ageOut[1].age_classification)
        /\ ageOut[1].stable_versions_since =
              stable_versions_since(healthCurrent, healthMetadata[1])

\* 1.3.0 with three newer stable versions and a newer RC: four versions
\* since, three of them stable, Aging for both tools
C29_Witness ==
    /\ ageOut # None /\ healthOut # None
    /\ healthCurrent = V_1_3_0
    /\ ageOut[1].versions_since = 4
    /\ ageOut[1].stable_versions_since = 3
    /\ ageOut[1].age_classification = "Aging"
    /\ healthOut[1].age_classification = Some("Aging")

----------------------------------------------------------------------------
(* versions_behind and is_outdated                                          *)

\* C27: in the response of compare_versions, versions_behind is at least 1
\* exactly when is_outdated holds.
C27_BehindIffOutdated ==
    (cvOut # None /\ cvOut[1].ok) =>
        (cvOut[1].value.versions_behind >= 1 <=> cvOut[1].value.is_outdated)

====
